---- MODULE Spec2Model ----
(***************************************************************************)
(* Model of the calendar server's DataCache (src/server.js): the primary   *)
(* event store `events`, the date index `eventsByDate`, the debounce timer *)
(* `writeTimer`, and the HTTP handlers that drive them.  Node runs every   *)
(* handler to completion up to its first real suspension, so one action is *)
(* one handler.                                                            *)
(***************************************************************************)
EXTENDS Integers, Sequences, FiniteSets, TLC

VARIABLES
    events,        \* DataCache.events: the primary store, an array of events
    eventsByDate,  \* DataCache.eventsByDate: date key -> array of event objects
    writeTimer,    \* DataCache.writeTimer: the state of the timeout the handle names
                   \* ("none" | "pending" | "fired") and how many flush timeouts
                   \* are armed in the timer queue
    now,           \* the value Date.now() returns (milliseconds)
    disk,          \* DATA_FILE: the "events" array of the document, the
                   \* fs.writeFile calls still in progress, whether one failed
    requests,      \* how many requests the server has handled
    lastOp,        \* the handler that ran in the last step, its input and response
    out,           \* what the last step handed to broadcast() and triggerWebhooks()
                   \* and what these did with it
    webhooks,      \* DataCache.webhooks: the array of subscriptions
    wsClients,     \* DataCache.wsClients: the connected sockets and their state
    client,        \* the test script runTests: its position, the id and the
                   \* event its create request was answered with
    apiKeys,       \* DataCache.apiKeys: the Map from issued key to its keyData
    auth,          \* the validateApiKey call of the last step: the key it was
                   \* given and what it returned
    notifications, \* DataCache.notifications: the notification history
    files,         \* WEBHOOKS_FILE and NOTIFICATIONS_FILE: the document of each
                   \* and the fs.writeFile calls still in progress
    server,        \* the process: whether the HTTP server accepts connections,
                   \* whether the reminder interval is armed, the steps the
                   \* SIGTERM handler has performed and the write it awaits
    scans,         \* the ids the reminder scanner reported, tick by tick (kept
                   \* for the properties only: the program has no such record)
    isAlive,       \* ws.isAlive of each socket
    pings,         \* the sockets that were sent a ping and have not answered it
    flushLog,      \* the order in which the writes of DATA_FILE started (kept
                   \* for the properties only: the program has no such record)
    browser        \* the OptimizedCalendar object of a browser page and its
                   \* requests in flight

vars == <<events, eventsByDate, writeTimer, now, disk, requests, lastOp, out,
          webhooks, wsClients, client, apiKeys, auth, notifications, files,
          server, scans, isAlive, pings, flushLog,
                   browser>>

----------------------------------------------------------------------------
(* Bounds *)

MaxClock == 2      \* Date.now() ranges over 1..MaxClock
MaxRequests == 3   \* the server handles at most this many requests
MaxQueryRequests == 2  \* ... at most this many mutating requests in the query runs
MaxNotifyRequests == 3 \* ... at most this many requests in the notifier runs

----------------------------------------------------------------------------
(* Values *)

Undefined == "undefined"          \* a string property that is absent from an object
NoNotifications == <<>>           \* an absent notification schedule
NoTimestamp == <<>>               \* an absent createdAt / updatedAt

Digits == <<"1", "2", "3", "4", "5", "6", "7", "8", "9">>

\* Date.now().toString(): the decimal digits of the clock
NowString(t) == Digits[t]

\* new Date().toISOString(): the ISO-8601 form of the clock, as the pair the
\* letter T separates; every clock value of the model lies in one day
ISOString(t) == <<"2024-01-20", "00:00:00.00" \o Digits[t] \o "Z">>

\* new Date().toISOString().split('T')[0]
Today(t) == ISOString(t)[1]

DefaultNotifications == [push |-> <<"15m">>, email |-> <<"1h">>, sms |-> <<>>]
CustomNotifications == [push |-> <<"5m">>, email |-> <<>>, sms |-> <<>>]

\* the calendar days of the model, in calendar order
DateSeq == <<"2024-01-19", "2024-01-20", "2024-01-21", "2024-01-22">>
Dates == {DateSeq[i] : i \in 1..Len(DateSeq)}

\* the keys of eventsByDate; an event without a date is filed under the
\* property name "undefined"
IndexKeys == Dates \cup {Undefined}

Fields == {"id", "title", "description", "date", "time", "type", "createdAt",
           "updatedAt", "notifications"}

Absent(f) ==
    CASE f = "notifications" -> NoNotifications
      [] f \in {"createdAt", "updatedAt"} -> NoTimestamp
      [] OTHER -> Undefined

\* an object with no properties
EmptyObject == [f \in Fields |-> Absent(f)]

Obj(id, title, date, time, type, schedule) ==
    [EmptyObject EXCEPT !["id"] = id, !["title"] = title, !["date"] = date,
                        !["time"] = time, !["type"] = type,
                        !["notifications"] = schedule]

\* request bodies of POST /api/events: two complete events, one without a
\* date, one without title and type that carries an id of its own
AddBodies ==
    { Obj(Undefined, "Sync", "2024-01-20", "14:00", "meeting", NoNotifications),
      Obj(Undefined, "Standup", "2024-01-21", Undefined, "meeting", <<CustomNotifications>>),
      Obj(Undefined, "Sync", Undefined, "14:00", "meeting", NoNotifications),
      Obj("1", Undefined, "2024-01-20", Undefined, Undefined, NoNotifications) }

\* request bodies of PUT /api/events/:id
UpdateBodies ==
    { Obj(Undefined, "Sync v2", Undefined, Undefined, Undefined, NoNotifications),
      Obj("9", Undefined, "2024-01-21", Undefined, Undefined, NoNotifications),
      Obj(Undefined, Undefined, "2024-01-20", Undefined, Undefined, NoNotifications) }

\* ids a request can name in its URL
RequestIds == {NowString(t) : t \in 1..MaxClock} \cup {"9"}

----------------------------------------------------------------------------
(* Object and array helpers *)

\* { ...a, ...b }: the properties of b override those of a
Spread(a, b) == [f \in Fields |-> IF b[f] # Absent(f) THEN b[f] ELSE a[f]]

\* findIndex whose -1 is taken for a position: the last element
FindIndexUnchecked(arr, id) ==
    IF \E i \in 1..Len(arr) : arr[i]["id"] = id
    THEN CHOOSE i \in 1..Len(arr) :
             /\ arr[i]["id"] = id
             /\ \A j \in 1..(i - 1) : arr[j]["id"] # id
    ELSE Len(arr)

\* array.findIndex(e => e.id === id), 0 for -1
FindIndex(arr, id) ==
    IF \E i \in 1..Len(arr) : arr[i]["id"] = id
    THEN CHOOSE i \in 1..Len(arr) :
             /\ arr[i]["id"] = id
             /\ \A j \in 1..(i - 1) : arr[j]["id"] # id
    ELSE 0

\* array.splice(index, 1)
Splice(arr, index) ==
    [i \in 1..(Len(arr) - 1) |-> IF i < index THEN arr[i] ELSE arr[i + 1]]

\* array.filter(e => e.id !== id)
RECURSIVE FilterOutId(_, _)
FilterOutId(arr, id) ==
    IF arr = <<>> THEN <<>>
    ELSE IF Head(arr)["id"] = id THEN FilterOutId(Tail(arr), id)
         ELSE <<Head(arr)>> \o FilterOutId(Tail(arr), id)

----------------------------------------------------------------------------
(* Notification and persistence hand-offs *)

NoOutput == [broadcast |-> <<>>, webhooks |-> <<>>]

\* the sockets of the model
Clients == {"c1", "c2"}

\* a socket is "ABSENT" (not in wsClients), "OPEN", "BROKEN" (readyState is
\* still OPEN but the connection is lost: what is sent fails later, with an
\* error event) or "CLOSING" (readyState CLOSING, the close event has not
\* come yet)
HasReadyStateOpen(state) == state \in {"OPEN", "BROKEN"}

\* a broadcast that does not look at readyState
BroadcastToAll(clients, message) ==
    [type |-> message.type,
     data |-> message.data,
     sends |-> {c \in DOMAIN clients : clients[c] # "ABSENT"},
     failed |-> {c \in DOMAIN clients : clients[c] \in {"BROKEN", "CLOSING"}}]

\* DataCache.broadcast(message): the message and the sockets it was sent to
Broadcast(clients, message) ==
    [type |-> message.type,
     data |-> message.data,
     sends |-> {c \in DOMAIN clients : HasReadyStateOpen(clients[c])},
     failed |-> {c \in DOMAIN clients : clients[c] = "BROKEN"}]

\* the events property of a subscription: an array of tags, or a value that
\* is no array and has no includes method
Tags(set) == [array |-> TRUE, tags |-> set]
NotAnArray == [array |-> FALSE, tags |-> {}]

\* the secret property of a subscription
NoSecret == <<>>
StringSecret == <<"string", "s3cret">>
NumberSecret == <<"number", "5">>

\* DataCache.callWebhook: the call and whether its try block ran through;
\* crypto.createHmac throws on a secret that is no string
CallWebhook(webhook, eventType) ==
    [id |-> webhook.id,
     url |-> webhook.url,
     event |-> eventType,
     signed |-> webhook.secret = StringSecret,
     ok |-> webhook.secret \in {NoSecret, StringSecret}]

\* w.events.includes(eventType) || w.events.includes('*')
IsRelevant(webhook, eventType) ==
    eventType \in webhook.events.tags \/ "*" \in webhook.events.tags

\* the calls of a triggerWebhooks whose forEach ends at the first call that
\* fails
RECURSIVE CallsUntilFailure(_, _)
CallsUntilFailure(relevant, eventType) ==
    IF relevant = <<>> THEN <<>>
    ELSE LET call == CallWebhook(Head(relevant), eventType) IN
         IF call.ok THEN <<call>> \o CallsUntilFailure(Tail(relevant), eventType)
         ELSE <<call>>

\* relevantWebhooks.forEach(webhook => this.callWebhook(...))
CallAll(relevant, eventType) ==
    [i \in 1..Len(relevant) |-> CallWebhook(relevant[i], eventType)]

\* DataCache.triggerWebhooks(eventType, data): the filter throws a TypeError,
\* which rejects the promise nobody awaits, when a subscription's events has
\* no includes method; otherwise every relevant subscription is called
TriggerWebhooks(hooks, eventType, data) ==
    IF \E i \in 1..Len(hooks) : ~hooks[i].events.array
    THEN [event |-> eventType, data |-> data, rejected |-> TRUE, calls |-> <<>>]
    ELSE [event |-> eventType, data |-> data, rejected |-> FALSE,
          calls |-> CallAll(SelectSeq(hooks, LAMBDA w : IsRelevant(w, eventType)),
                            eventType)]

\* this.broadcast({type, data}); this.triggerWebhooks(eventType, data)
Notify(wsType, hookType, data) ==
    [broadcast |-> <<Broadcast(wsClients, [type |-> wsType, data |-> data])>>,
     webhooks |-> <<TriggerWebhooks(webhooks, hookType, data)>>]

\* queueWrite() without its clearTimeout
QueueWriteNoClear(timer) ==
    [handle |-> "pending", armed |-> timer.armed + 1]

\* queueWrite(): clearTimeout cancels the timeout the handle names if it is
\* still armed, setTimeout arms a new one
QueueWrite(timer) ==
    [handle |-> "pending",
     armed |-> (IF timer.handle = "pending" THEN timer.armed - 1 ELSE timer.armed) + 1]

----------------------------------------------------------------------------
(* DataCache.addEvent *)

NewEvent(eventData, t) ==
    [Spread([EmptyObject EXCEPT !["id"] = NowString(t)], eventData)
        EXCEPT !["createdAt"] = ISOString(t),
               !["notifications"] =
                   IF eventData["notifications"] # NoNotifications
                   THEN eventData["notifications"]
                   ELSE <<DefaultNotifications>>]

\* this.events.push(newEvent)
AddToStore(store, ev) == Append(store, ev)

\* the index left for a later turn to update
AddToIndexDeferred(index, ev) == index

\* this.eventsByDate[newEvent.date].push(newEvent)
AddToIndex(index, ev) ==
    [index EXCEPT ![ev["date"]] = Append(@, ev)]

\* POST /api/events
AddEvent(eventData) ==
    LET newEvent == NewEvent(eventData, now) IN
    /\ events' = AddToStore(events, newEvent)
    /\ eventsByDate' = AddToIndex(eventsByDate, newEvent)
    /\ out' = Notify("event-added", "event.created", newEvent)
    /\ writeTimer' = QueueWrite(writeTimer)
    /\ lastOp' = [op |-> "add", id |-> newEvent["id"], body |-> eventData,
                  status |-> 201, ret |-> <<newEvent>>]
    /\ UNCHANGED <<now, disk, webhooks, wsClients>>

----------------------------------------------------------------------------
(* DataCache.updateEvent *)

\* the merge with the id written before the spreads, so that updates.id wins
MergeUpdateIdFirst(oldEvent, updates, eventId, t) ==
    [Spread([oldEvent EXCEPT !["id"] = eventId], updates)
        EXCEPT !["updatedAt"] = ISOString(t)]

\* { ...oldEvent, ...updates, id: eventId, updatedAt: new Date().toISOString() }
MergeUpdate(oldEvent, updates, eventId, t) ==
    [Spread(oldEvent, updates) EXCEPT !["id"] = eventId,
                                      !["updatedAt"] = ISOString(t)]

\* this.events[index] = updatedEvent
ReplaceInStore(store, index, updatedEvent) ==
    [store EXCEPT ![index] = updatedEvent]

\* the index update that forgets to remove the event from its old date
UpdateIndexNoRemove(index, oldEvent, updatedEvent, eventId) ==
    IF oldEvent["date"] # updatedEvent["date"]
    THEN [index EXCEPT ![updatedEvent["date"]] = Append(@, updatedEvent)]
    ELSE index

\* the "Update index" block: only when the date changed
UpdateIndex(index, oldEvent, updatedEvent, eventId) ==
    IF oldEvent["date"] # updatedEvent["date"]
    THEN [index EXCEPT
            ![oldEvent["date"]] = FilterOutId(@, eventId),
            ![updatedEvent["date"]] = Append(@, updatedEvent)]
    ELSE index

\* PUT /api/events/:id
UpdateEvent(eventId, updates) ==
    LET index == FindIndex(events, eventId) IN
    /\ IF index = 0
       THEN /\ lastOp' = [op |-> "update", id |-> eventId, body |-> updates,
                          status |-> 404, ret |-> <<>>]
            /\ out' = NoOutput
            /\ UNCHANGED <<events, eventsByDate, writeTimer, now, disk, webhooks, wsClients>>
       ELSE LET oldEvent == events[index]
                updatedEvent == MergeUpdate(oldEvent, updates, eventId, now)
            IN /\ events' = ReplaceInStore(events, index, updatedEvent)
               /\ eventsByDate' = UpdateIndex(eventsByDate, oldEvent, updatedEvent, eventId)
               /\ out' = Notify("event-updated", "event.updated", updatedEvent)
               /\ writeTimer' = QueueWrite(writeTimer)
               /\ lastOp' = [op |-> "update", id |-> eventId, body |-> updates,
                             status |-> 200, ret |-> <<updatedEvent>>]
               /\ UNCHANGED <<now, disk, webhooks, wsClients>>

----------------------------------------------------------------------------
(* DataCache.deleteEvent *)

\* this.events.splice(index, 1)
RemoveFromStore(store, index) == Splice(store, index)

\* a delete that leaves the index alone
RemoveFromIndexSkipped(index, event, eventId) == index

\* this.eventsByDate[event.date] = this.eventsByDate[event.date].filter(...)
RemoveFromIndex(index, event, eventId) ==
    [index EXCEPT ![event["date"]] = FilterOutId(@, eventId)]

\* DELETE /api/events/:id
DeleteEvent(eventId) ==
    LET index == FindIndex(events, eventId) IN
    /\ IF index = 0
       THEN /\ lastOp' = [op |-> "delete", id |-> eventId, body |-> EmptyObject,
                          status |-> 404, ret |-> <<>>]
            /\ out' = NoOutput
            /\ UNCHANGED <<events, eventsByDate, writeTimer, now, disk, webhooks, wsClients>>
       ELSE LET event == events[index]
            IN /\ events' = RemoveFromStore(events, index)
               /\ eventsByDate' = RemoveFromIndex(eventsByDate, event, eventId)
               /\ out' = Notify("event-deleted", "event.deleted",
                                [EmptyObject EXCEPT !["id"] = eventId])
               /\ writeTimer' = QueueWrite(writeTimer)
               /\ lastOp' = [op |-> "delete", id |-> eventId, body |-> EmptyObject,
                             status |-> 200, ret |-> <<>>]
               /\ UNCHANGED <<now, disk, webhooks, wsClients>>

----------------------------------------------------------------------------
(* Reads *)

\* GET /api/events/:id: events.find(e => e.id === id), <<>> for the 404
GetEvent(id) ==
    IF FindIndex(events, id) = 0 THEN <<>> ELSE <<events[FindIndex(events, id)]>>

\* GET /api/events without filters
ListEvents == events

\* DataCache.getTodayEvents
GetTodayEvents == eventsByDate[Today(now)]

\* DataCache.getEventsInRange, walking the days DateSeq[first..last]
RECURSIVE GetEventsInRange(_, _)
GetEventsInRange(first, last) ==
    IF first > last THEN <<>>
    ELSE eventsByDate[DateSeq[first]] \o GetEventsInRange(first + 1, last)

----------------------------------------------------------------------------
(* The debounce timer firing: DataCache.writeEvents *)

\* JSON.stringify of the events array: each object with the properties it
\* has, a property that is absent left out
Stringify(arr) ==
    [i \in 1..Len(arr) |->
        [f \in {g \in Fields : arr[i][g] # Absent(g)} |-> arr[i][f]]]

\* JSON.parse of the events array of the document: a property that is not
\* in an object reads undefined
Parse(doc) ==
    [i \in 1..Len(doc) |->
        [f \in Fields |-> IF f \in DOMAIN doc[i] THEN doc[i][f] ELSE Absent(f)]]

\* writeEvents up to its await: JSON.stringify(this.events) is taken now and
\* fs.writeFile starts
WriteEvents(d, snapshot) == [d EXCEPT !.writing = Append(@, Stringify(snapshot))]

\* a writeEvents that starts the write again when it fails
WriteSettledRetry(d, i, ok) ==
    [doc |-> IF ok THEN d.writing[i] ELSE d.doc,
     writing |-> IF ok THEN [j \in 1..(Len(d.writing) - 1) |->
                               IF j < i THEN d.writing[j] ELSE d.writing[j + 1]]
                 ELSE d.writing,
     failed |-> d.failed \/ ~ok]

\* the await in writeEvents settling for the i-th write in progress: the
\* document becomes its snapshot, or the catch logs the error.  Writes to one
\* file that overlap are not ordered by Node: the one that ends last wins.
WriteSettled(d, i, ok) ==
    [doc |-> IF ok THEN d.writing[i] ELSE d.doc,
     writing |-> [j \in 1..(Len(d.writing) - 1) |->
                     IF j < i THEN d.writing[j] ELSE d.writing[j + 1]],
     failed |-> d.failed \/ ~ok]

\* the setTimeout callback of queueWrite
FlushFire ==
    /\ writeTimer.armed > 0
    /\ writeTimer' = [handle |-> IF writeTimer.armed = 1 THEN "fired"
                                 ELSE writeTimer.handle,
                      armed |-> writeTimer.armed - 1]
    /\ disk' = WriteEvents(disk, events)
    /\ lastOp' = [op |-> "flush", id |-> Undefined, body |-> EmptyObject,
                  status |-> 0, ret |-> <<>>]
    /\ out' = NoOutput
    /\ UNCHANGED <<events, eventsByDate, now, requests, webhooks, wsClients>>

\* fs.writeFile resolving or rejecting
WriteDone(i, ok) ==
    /\ i \in 1..Len(disk.writing)
    /\ disk' = WriteSettled(disk, i, ok)
    /\ lastOp' = [op |-> "write", id |-> Undefined, body |-> EmptyObject,
                  status |-> IF ok THEN 200 ELSE 500, ret |-> <<>>]
    /\ out' = NoOutput
    /\ UNCHANGED <<events, eventsByDate, writeTimer, now, requests, webhooks, wsClients>>

----------------------------------------------------------------------------
(* The clock *)

Tick ==
    /\ now < MaxClock
    /\ now' = now + 1
    /\ lastOp' = [op |-> "tick", id |-> Undefined, body |-> EmptyObject,
                  status |-> 0, ret |-> <<>>]
    /\ out' = NoOutput
    /\ UNCHANGED <<events, eventsByDate, writeTimer, disk, requests, webhooks, wsClients>>

----------------------------------------------------------------------------
(* The state after construction and startServer *)

\* new Map()
NoKeys == [k \in {} |-> {}]

\* no validateApiKey call
NoAuth == [called |-> FALSE, key |-> Undefined, ok |-> FALSE]

\* a file initDataFiles wrote as '[]', with no write in progress
EmptyFile == [doc |-> <<>>, writing |-> <<>>]

\* the process after startServer: listening, the notificationChecker interval
\* armed, no SIGTERM handled
Running == [listening |-> TRUE, checker |-> TRUE, steps |-> <<>>, awaiting |-> 0,
            exited |-> FALSE]

\* no write of DATA_FILE has started
NoFlushes == [started |-> 0, inflight |-> <<>>, stored |-> 0]

\* the keys of eventCache: `${year}-${month}` of January and February 2024
MonthKeys == {"2024-0", "2024-1"}

\* an array the page holds: this.events is either the very array that
\* eventCache holds under a key (alias) or an array of its own
OwnArray(arr) == [alias |-> "none", own |-> arr]
CachedArray(key) == [alias |-> key, own |-> <<>>]

\* no page is open
NoPage == [open |-> FALSE, ready |-> FALSE, current |-> "2024-0",
           events |-> OwnArray(<<>>),
           eventCache |-> [k \in MonthKeys |-> <<>>],
           loads |-> <<>>, saves |-> <<>>, clicks |-> 0]

\* history is what loadNotifications read from NOTIFICATIONS_FILE
InitWith(history) ==
    /\ events = <<>>
    /\ eventsByDate = [k \in IndexKeys |-> <<>>]
    /\ writeTimer = [handle |-> "none", armed |-> 0]
    /\ now = 1
    /\ disk = [doc |-> <<>>, writing |-> <<>>, failed |-> FALSE]
    /\ requests = 0
    /\ lastOp = [op |-> "start", id |-> Undefined, body |-> EmptyObject,
                 status |-> 0, ret |-> <<>>]
    /\ out = NoOutput
    /\ webhooks = <<>>
    /\ wsClients = [c \in Clients |-> "ABSENT"]
    /\ client = [pc |-> "create", id |-> Undefined, created |-> EmptyObject]
    /\ apiKeys = NoKeys
    /\ auth = NoAuth
    /\ notifications = history
    /\ files = [webhooks |-> EmptyFile,
                notifications |-> [doc |-> history, writing |-> <<>>]]
    /\ server = Running
    /\ scans = <<>>
    /\ isAlive = [c \in Clients |-> TRUE]
    /\ pings = {}
    /\ flushLog = NoFlushes
    /\ browser = NoPage

\* the first start: initDataFiles has just made the files
Init == InitWith(<<>>)

\* the test script is not running
NoScript == UNCHANGED client

\* a step of the event store on its own: the request carries no API key (or
\* the step is no request), nothing is recorded in the notification history,
\* no subscription file is written, the process gets no signal
Plain ==
    /\ auth' = NoAuth
    /\ UNCHANGED <<apiKeys, notifications, files, server, scans, isAlive, pings, flushLog,
                   browser>>

\* one more request is handled
Budget == requests < MaxRequests /\ requests' = requests + 1

\* no fs.writeFile is in progress
Settled == disk.writing = <<>>

\* The event store on its own: the runs in which every disk write settles
\* before the next request or flush (StorePersist below drops that).
Next ==
    \/ NoScript /\ Plain /\ Budget /\ Settled /\ \E eventData \in AddBodies : AddEvent(eventData)
    \/ NoScript /\ Plain /\ Budget /\ Settled /\ \E eventId \in RequestIds, updates \in UpdateBodies :
           UpdateEvent(eventId, updates)
    \/ NoScript /\ Plain /\ Budget /\ Settled /\ \E eventId \in RequestIds : DeleteEvent(eventId)
    \/ NoScript /\ Plain /\ Settled /\ FlushFire
    \/ NoScript /\ Plain /\ \E i \in 1..MaxRequests, ok \in BOOLEAN : WriteDone(i, ok)
    \/ NoScript /\ Plain /\ Tick

Spec == Init /\ [][Next]_vars

----------------------------------------------------------------------------
(* Vocabulary of the properties *)

\* the ids of an array of events, in order
IdsOf(arr) == [i \in 1..Len(arr) |-> arr[i]["id"]]

\* how many elements of arr have this id
CountId(arr, id) == Cardinality({i \in 1..Len(arr) : arr[i]["id"] = id})

\* how many elements of arr have this id and this date
CountIdDate(arr, id, date) ==
    Cardinality({i \in 1..Len(arr) : arr[i]["id"] = id /\ arr[i]["date"] = date})

\* how many elements of arr equal this event
CountEvent(arr, ev) == Cardinality({i \in 1..Len(arr) : arr[i] = ev})

\* every id held anywhere in the store or the index of a state
HeldIds(store, index) ==
    {store[i]["id"] : i \in 1..Len(store)} \cup
    UNION {{index[k][i]["id"] : i \in 1..Len(index[k])} : k \in IndexKeys}

Succeeded(op) == op["status"] \in {200, 201}

MissingRequired(body) ==
    \/ body["title"] = Undefined
    \/ body["date"] = Undefined
    \/ body["type"] = Undefined

\* what a date-index read (todayEvents, the date-range list) returns
IndexReads == GetTodayEvents \o GetEventsInRange(1, Len(DateSeq))

----------------------------------------------------------------------------
(* C1: after every add, update and delete the date index holds each stored  *)
(* event under the key of its current date exactly as often as the store    *)
(* holds it, and holds nothing else (no orphaned, no duplicate entries).    *)
C1_IndexMatchesStore ==
    \A id \in HeldIds(events, eventsByDate) : \A k \in IndexKeys :
        CountId(eventsByDate[k], id) = CountIdDate(events, id, k)

(* C2: after a successful update the event the date-index reads return for  *)
(* the id has the field values of the event get(id) returns.                *)
C2_IndexReadsAgreeWithStore ==
    (lastOp["op"] = "update" /\ Succeeded(lastOp)) =>
        \A i \in 1..Len(IndexReads) :
            IndexReads[i]["id"] = lastOp["id"] => <<IndexReads[i]>> = GetEvent(lastOp["id"])

\* what C3 requires of one step
C3_MutationStep ==
    LET id == lastOp'["id"]
        index == FindIndex(events, id)
    IN CASE lastOp'["op"] = "add" ->
              LET e == lastOp'["ret"][1] IN
              /\ events' = Append(events, e)
              /\ eventsByDate' = [eventsByDate EXCEPT ![e["date"]] = Append(@, e)]
         [] lastOp'["op"] = "update" /\ Succeeded(lastOp') ->
              LET u == lastOp'["ret"][1] IN
              /\ events' = [events EXCEPT ![index] = u]
              /\ IF events[index]["date"] # u["date"]
                 THEN /\ CountId(eventsByDate'[events[index]["date"]], id) = 0
                      /\ CountEvent(eventsByDate'[u["date"]], u) >= 1
                 ELSE eventsByDate' = eventsByDate
         [] lastOp'["op"] = "delete" /\ Succeeded(lastOp') ->
              /\ Len(events') = Len(events) - 1
              /\ CountId(eventsByDate'[events[index]["date"]], id) = 0
         [] OTHER -> UNCHANGED <<events, eventsByDate>>

C4_AddThenGet ==
    lastOp["op"] = "add" =>
        LET e == lastOp["ret"][1]
            body == lastOp["body"]
        IN /\ GetEvent(e["id"]) = <<e>>
           /\ \A f \in {"title", "date", "time", "type"} : e[f] = body[f]
           /\ e["id"] # Undefined
           /\ e["createdAt"] # NoTimestamp
           /\ e["notifications"] = IF body["notifications"] = NoNotifications
                                   THEN <<DefaultNotifications>>
                                   ELSE body["notifications"]
           /\ CountEvent(ListEvents, e) >= 1
           /\ CountEvent(eventsByDate[e["date"]], e) >= 1
           /\ \A k \in IndexKeys \ {e["date"]} : CountEvent(eventsByDate[k], e) = 0

\* what C5 requires of one step
C5_AddValidatesStep ==
    (lastOp'["op"] = "add" /\ MissingRequired(lastOp'["body"])) =>
        /\ lastOp'["status"] = 400
        /\ out' = NoOutput
        /\ UNCHANGED <<events, eventsByDate, writeTimer>>

(* C5: add with title, date or type missing fails with a validation error   *)
(* and leaves the store, the index, the pending flush and the notifications *)
(* unchanged.                                                               *)
C5_AddValidates == [][C5_AddValidatesStep]_vars

(* C6: no two events in the primary store share an id.                      *)
C6_UniqueIds ==
    \A i, j \in 1..Len(events) : i # j => events[i]["id"] # events[j]["id"]

\* what C7 requires of one step
C7_UpdateAbsentStep ==
    (lastOp'["op"] = "update" /\ CountId(events, lastOp'["id"]) = 0) =>
        /\ lastOp'["status"] = 404
        /\ lastOp'["ret"] = <<>>
        /\ out' = NoOutput
        /\ UNCHANGED <<events, eventsByDate, writeTimer, disk>>

(* C7: update with an id that is not in the store answers not-found and     *)
(* changes neither store nor index, sends nothing and schedules no flush.   *)
C7_UpdateAbsent == [][C7_UpdateAbsentStep]_vars

C7_Witness ==
    /\ lastOp["op"] = "update" /\ lastOp["status"] = 404
    /\ Len(events) >= 1
    /\ writeTimer.handle = "fired"

\* what C8 requires of one step
C8_UpdateMergeStep ==
    (lastOp'["op"] = "update" /\ CountId(events, lastOp'["id"]) > 0) =>
        LET index == FindIndex(events, lastOp'["id"])
            old == events[index]
            body == lastOp'["body"]
            u == events'[index]
        IN /\ Succeeded(lastOp')
           /\ lastOp'["ret"] = <<u>>
           /\ \A f \in Fields \ {"id", "updatedAt"} :
                  u[f] = IF body[f] # Absent(f) THEN body[f] ELSE old[f]
           /\ u["updatedAt"] = ISOString(now')
           /\ u["id"] = old["id"]
           /\ Len(events') = Len(events)
           /\ \A i \in 1..Len(events) : i # index => events'[i] = events[i]

(* C8: update on a stored event yields an event in which every provided     *)
(* field has the provided value, every other field its previous value, the  *)
(* last-update timestamp is set, and the id is the original id even when    *)
(* the fields contain an id.                                                *)
C8_UpdateMerge == [][C8_UpdateMergeStep]_vars

C8_Witness ==
    /\ lastOp["op"] = "update" /\ Succeeded(lastOp)
    /\ lastOp["body"]["id"] = "9"
    /\ lastOp["id"] # "9"
    /\ GetEvent(lastOp["id"]) = lastOp["ret"]
    /\ lastOp["ret"][1]["title"] = "Standup"
    /\ lastOp["ret"][1]["date"] = "2024-01-21"

\* what C9 requires of one step
C9_DateMoveStep ==
    (lastOp'["op"] = "update" /\ Succeeded(lastOp')) =>
        LET id == lastOp'["id"]
            old == events[FindIndex(events, id)]
            u == lastOp'["ret"][1]
        IN IF old["date"] # u["date"]
           THEN /\ CountId(eventsByDate'[old["date"]], id) = 0
                /\ eventsByDate'[u["date"]] = Append(eventsByDate[u["date"]], u)
                /\ \A k \in IndexKeys \ {old["date"], u["date"]} :
                       eventsByDate'[k] = eventsByDate[k]
           ELSE \A k \in IndexKeys : IdsOf(eventsByDate'[k]) = IdsOf(eventsByDate[k])

C10_DeleteStep ==
    lastOp'["op"] = "delete" =>
        LET id == lastOp'["id"]
            index == FindIndex(events, id)
        IN IF CountId(events, id) = 0
           THEN /\ lastOp'["status"] = 404
                /\ out' = NoOutput
                /\ UNCHANGED <<events, eventsByDate, writeTimer, disk>>
           ELSE /\ lastOp'["status"] = 200
                /\ events' = Splice(events, index)
                /\ CountId(eventsByDate'[events[index]["date"]], id) = 0
                /\ \A k \in IndexKeys \ {events[index]["date"]} :
                       eventsByDate'[k] = eventsByDate[k]

----------------------------------------------------------------------------
(* The persistence writer on its own: requests, the debounce timer and the  *)
(* disk writes in every interleaving, a write of one flush still running    *)
(* when the next one starts included.                                      *)

\* request bodies of the persistence runs
PersistBodies ==
    { Obj(Undefined, "Sync", "2024-01-20", "14:00", "meeting", NoNotifications),
      Obj(Undefined, "Standup", "2024-01-21", Undefined, "meeting", <<CustomNotifications>>) }

PersistUpdates ==
    { Obj(Undefined, "Sync v2", Undefined, Undefined, Undefined, NoNotifications) }

NextPersist ==
    \/ NoScript /\ Plain /\ Budget /\ \E eventData \in PersistBodies : AddEvent(eventData)
    \/ NoScript /\ Plain /\ Budget /\ \E eventId \in RequestIds, updates \in PersistUpdates :
           UpdateEvent(eventId, updates)
    \/ NoScript /\ Plain /\ Budget /\ \E eventId \in RequestIds : DeleteEvent(eventId)
    \/ NoScript /\ Plain /\ FlushFire
    \/ NoScript /\ Plain /\ \E i \in 1..MaxRequests, ok \in BOOLEAN : WriteDone(i, ok)

SpecPersist == Init /\ [][NextPersist]_vars

MutationOps == {"add", "update", "delete"}

\* the last step was a mutation that was applied
Mutated(op) == op["op"] \in MutationOps /\ Succeeded(op)

\* what C16 requires of one step
C16_SingleSlotStep ==
    /\ writeTimer'.armed <= 1
    /\ Mutated(lastOp') =>
           /\ writeTimer' = [handle |-> "pending", armed |-> 1]
           /\ disk' = disk
    /\ lastOp'["op"] = "flush" =>
           /\ writeTimer.armed = 1
           /\ writeTimer'.armed = 0
           /\ disk'.writing = Append(disk.writing, Stringify(events))

(* C16: at most one debounced flush is armed at any moment; a mutation      *)
(* leaves exactly one armed, whether or not one was armed before, and       *)
(* starts no disk write itself; the armed flush, when it fires, starts one  *)
(* write whose content is the event set of that moment, the state after     *)
(* the last mutation of the burst, and leaves none armed.                   *)
C16_SingleSlot == [][C16_SingleSlotStep]_vars

\* the first flush fires after a burst of two adds
C16_Witness ==
    /\ lastOp["op"] = "flush"
    /\ requests = 2
    /\ Len(events) = 2
    /\ disk = [doc |-> <<>>, writing |-> <<Stringify(events)>>, failed |-> FALSE]
    /\ writeTimer = [handle |-> "fired", armed |-> 0]

(* C17: once no flush is armed, no write is in progress and no write has    *)
(* failed, the durable document equals the in-memory event set.             *)
C17_QuiescentDiskMatches ==
    (writeTimer.armed = 0 /\ disk.writing = <<>> /\ ~disk.failed)
        => disk.doc = Stringify(events)

\* what C18 requires of one step
C18_FailedFlushStep ==
    /\ (lastOp'["op"] = "write" /\ lastOp'["status"] = 500) =>
           /\ UNCHANGED <<events, eventsByDate, writeTimer>>
           /\ Len(disk'.writing) = Len(disk.writing) - 1
    /\ lastOp'["op"] = "flush" =>
           disk'.writing[Len(disk'.writing)] = Stringify(events)

(* C18: a disk write that fails changes neither the store nor the index,    *)
(* arms no timer and starts no write; every later flush writes the whole    *)
(* event set of its moment, the state the failed write did not store        *)
(* included.                                                                *)
C18_FailedFlush == [][C18_FailedFlushStep]_vars

\* a write failed, a later mutation armed a flush, and that flush stored
\* the whole event set
C18_Witness ==
    /\ disk.failed
    /\ disk.writing = <<>>
    /\ Len(events) = 2
    /\ disk.doc = Stringify(events)
    /\ lastOp = [op |-> "write", id |-> Undefined, body |-> EmptyObject,
                 status |-> 200, ret |-> <<>>]

----------------------------------------------------------------------------
(* Text, dates and numbers as the query code reads them *)

\* Number(x) of a string that is no number; new Date(x) of no date
NaN == -1

\* the characters of the strings the requests and events carry
Chars(s) ==
    CASE s = "Sync" -> <<"S", "y", "n", "c">>
      [] s = "Sync v2" -> <<"S", "y", "n", "c", " ", "v", "2">>
      [] s = "Standup" -> <<"S", "t", "a", "n", "d", "u", "p">>
      [] s = "Retro" -> <<"R", "e", "t", "r", "o">>
      [] s = "Team SYNC" -> <<"T", "e", "a", "m", " ", "S", "Y", "N", "C">>
      [] s = "meeting" -> <<"m", "e", "e", "t", "i", "n", "g">>
      [] s = "daily" -> <<"d", "a", "i", "l", "y">>
      [] s = "sy" -> <<"s", "y">>
      [] s = "MEET" -> <<"M", "E", "E", "T">>
      [] s = "zz" -> <<"z", "z">>

UpperCase == <<"A", "B", "C", "D", "E", "F", "G", "H", "I", "J", "K", "L", "M",
               "N", "O", "P", "Q", "R", "S", "T", "U", "V", "W", "X", "Y", "Z">>
LowerCase == <<"a", "b", "c", "d", "e", "f", "g", "h", "i", "j", "k", "l", "m",
               "n", "o", "p", "q", "r", "s", "t", "u", "v", "w", "x", "y", "z">>

\* the characters of the model
Alphabet ==
    {UpperCase[k] : k \in 1..Len(UpperCase)} \cup {LowerCase[k] : k \in 1..Len(LowerCase)}
        \cup {" ", "2"}

\* toLowerCase of one character: an upper-case letter becomes its lower-case
\* letter, every other character stays
LowerOf ==
    [c \in Alphabet |->
        IF \E k \in 1..Len(UpperCase) : UpperCase[k] = c
        THEN LowerCase[CHOOSE k \in 1..Len(UpperCase) : UpperCase[k] = c]
        ELSE c]

\* String.prototype.toLowerCase, on the characters
ToLowerCase(chars) == [i \in 1..Len(chars) |-> LowerOf[chars[i]]]

\* String.prototype.includes, on the characters
Includes(hay, needle) ==
    \E i \in 1..(Len(hay) - Len(needle) + 1) :
        SubSeq(hay, i, i + Len(needle) - 1) = needle

\* new Date(dateString) for a date-only string, as the number of the day
\* counted from 2023-12-31; NaN for an invalid date
ParseDate(s) ==
    CASE s = "2024-01-01" -> 1
      [] s = "2024-01-19" -> 19
      [] s = "2024-01-20" -> 20
      [] s = "2024-01-21" -> 21
      [] s = "2024-01-22" -> 22
      [] s = "2024-01-31" -> 31
      [] s = "2024-02-01" -> 32
      [] s = "2024-02-29" -> 60
      [] OTHER -> NaN

\* the day number of the day every clock value of the model lies in
TodayNumber(t) == ParseDate(Today(t))

\* the time-of-day part of new Date(`${date}T${time}`), in milliseconds
ParseTime(s) ==
    CASE s = "00:00:00.002" -> 2
      [] s = "00:10" -> 600000
      [] s = "00:15:00.002" -> 900002
      [] s = "00:20" -> 1200000
      [] s = "14:00" -> 50400000
      [] OTHER -> NaN

\* Date.now() and new Date(`${date}T${time}`).getTime(), both counted in
\* milliseconds from the midnight that starts the day of the clock
NowMs(t) == t
EventTime(date, time, t) ==
    IF ParseDate(date) = NaN \/ ParseTime(time) = NaN THEN NaN
    ELSE (ParseDate(date) - TodayNumber(t)) * 86400000 + ParseTime(time)

\* Number(x) of a query-string value
ToNumber(s) ==
    CASE s = "0" -> 0
      [] s = "1" -> 1
      [] s = "2" -> 2
      [] s = "3" -> 3
      [] s = "7" -> 7
      [] s = "15" -> 15
      [] s = "30" -> 30
      [] s = "60" -> 60
      [] s = "100" -> 100
      [] OTHER -> NaN

\* a + b of two numbers of which either may be NaN
Plus(a, b) == IF a = NaN \/ b = NaN THEN NaN ELSE a + b

\* Array.prototype.slice(from, to) for from, to that are naturals or NaN
Slice(arr, from, to) ==
    LET lo == IF from = NaN THEN 0 ELSE IF from > Len(arr) THEN Len(arr) ELSE from
        hi == IF to = NaN THEN 0 ELSE IF to > Len(arr) THEN Len(arr) ELSE to
    IN SubSeq(arr, lo + 1, hi)

----------------------------------------------------------------------------
(* DataCache queries *)

\* the callback of searchEvents throws a TypeError: title or, when neither
\* title nor description matches, type is undefined
SearchThrows(event, lowerQuery) ==
    \/ event["title"] = Undefined
    \/ /\ ~Includes(ToLowerCase(Chars(event["title"])), lowerQuery)
       /\ ~(event["description"] # Undefined
            /\ Includes(ToLowerCase(Chars(event["description"])), lowerQuery))
       /\ event["type"] = Undefined

\* the callback of searchEvents
SearchMatches(event, lowerQuery) ==
    \/ Includes(ToLowerCase(Chars(event["title"])), lowerQuery)
    \/ /\ event["description"] # Undefined
       /\ Includes(ToLowerCase(Chars(event["description"])), lowerQuery)
    \/ Includes(ToLowerCase(Chars(event["type"])), lowerQuery)

\* DataCache.searchEvents: the matching events of the store, or the throw
SearchEvents(query) ==
    LET lowerQuery == ToLowerCase(Chars(query)) IN
    IF \E i \in 1..Len(events) : SearchThrows(events[i], lowerQuery)
    THEN [threw |-> TRUE, result |-> <<>>]
    ELSE [threw |-> FALSE,
          result |-> SelectSeq(events, LAMBDA e : SearchMatches(e, lowerQuery))]

\* DataCache.getEventsInRange(startDate, endDate) on date strings: the loop
\* runs over no day when either date is invalid, and the days outside
\* DateSeq have no bucket
GetEventsInRangeOf(startDate, endDate) ==
    LET start == ParseDate(startDate)
        end == ParseDate(endDate)
        firstDay == ParseDate(DateSeq[1])
        lastDay == ParseDate(DateSeq[Len(DateSeq)])
        from == IF start < firstDay THEN firstDay ELSE start
        to == IF end > lastDay THEN lastDay ELSE end
    IN IF start = NaN \/ end = NaN THEN <<>>
       ELSE GetEventsInRange(from - firstDay + 1, to - firstDay + 1)

\* result.sort((a, b) => new Date(a.date) - new Date(b.date)): a stable sort
RECURSIVE SortByDate(_)
SortByDate(arr) ==
    IF arr = <<>> THEN <<>>
    ELSE LET rest == SortByDate(Tail(arr))
             d == ParseDate(Head(arr)["date"])
             k == Cardinality({i \in 1..Len(rest) : ParseDate(rest[i]["date"]) < d})
         IN SubSeq(rest, 1, k) \o <<Head(arr)>> \o SubSeq(rest, k + 1, Len(rest))

\* DataCache.getUpcomingEvents(days): the buckets of today .. today + days
GetUpcomingEvents(days) ==
    LET firstDay == ParseDate(DateSeq[1])
        lastDay == ParseDate(DateSeq[Len(DateSeq)])
        end == TodayNumber(now) + days
        to == IF end > lastDay THEN lastDay ELSE end
    IN SortByDate(GetEventsInRange(TodayNumber(now) - firstDay + 1, to - firstDay + 1))

\* eventTime > now && eventTime <= checkTime, with both bounds inclusive
IsDueInclusive(eventTime, t, checkTime) ==
    eventTime # NaN /\ eventTime >= t /\ eventTime <= checkTime

\* eventTime > now && eventTime <= checkTime
IsDue(eventTime, t, checkTime) ==
    eventTime # NaN /\ eventTime > t /\ eventTime <= checkTime

\* the element getEventsNeedingReminders pushes for a due event
Reminder(event, t) ==
    [event |-> event,
     minutesUntil |-> (EventTime(event["date"], event["time"], t) - NowMs(t)) \div 60000,
     notificationTime |-> ISOString(t)]

\* DataCache.getEventsNeedingReminders(minutesBefore)
RECURSIVE RemindersOf(_, _, _)
RemindersOf(arr, minutesBefore, t) ==
    IF arr = <<>> THEN <<>>
    ELSE LET event == Head(arr)
             checkTime == NowMs(t) + minutesBefore * 60000
         IN (IF /\ event["date"] # Undefined
                /\ event["time"] # Undefined
                /\ IsDue(EventTime(event["date"], event["time"], t), NowMs(t), checkTime)
             THEN <<Reminder(event, t)>> ELSE <<>>)
            \o RemindersOf(Tail(arr), minutesBefore, t)

GetEventsNeedingReminders(minutesBefore) == RemindersOf(events, minutesBefore, now)

----------------------------------------------------------------------------
(* GET /api/events and GET /api/events/upcoming *)

\* String(month).padStart(2, '0')
PadStart(s) ==
    CASE s = "1" -> "01"
      [] s = "2" -> "02"
      [] OTHER -> s

\* new Date(year, month, 0).toISOString().split('T')[0] on a server whose
\* local time is UTC: the last day of the month
LastDayOfMonth(year, month) ==
    CASE year = "2024" /\ month = "1" -> "2024-01-31"
      [] year = "2024" /\ month = "2" -> "2024-02-29"
      [] OTHER -> "Invalid Date"

QueryParams == {"start", "end", "month", "year", "type", "search", "limit", "offset",
                "days"}

\* req.query with no parameters
NoQuery == [p \in QueryParams |-> Undefined]

\* the query strings of the list requests
ListQueries ==
    { NoQuery,
      [NoQuery EXCEPT !["start"] = "2024-01-20", !["end"] = "2024-01-21"],
      [NoQuery EXCEPT !["month"] = "1", !["year"] = "2024"],
      [NoQuery EXCEPT !["month"] = "2", !["year"] = "2024"],
      [NoQuery EXCEPT !["type"] = "meeting"],
      [NoQuery EXCEPT !["search"] = "sy"],
      [NoQuery EXCEPT !["start"] = "2024-01-21", !["end"] = "2024-01-22",
                      !["search"] = "sy"],
      [NoQuery EXCEPT !["type"] = "daily", !["search"] = "MEET"],
      [NoQuery EXCEPT !["limit"] = "1", !["offset"] = "1"],
      [NoQuery EXCEPT !["limit"] = "2"],
      [NoQuery EXCEPT !["offset"] = "1"],
      [NoQuery EXCEPT !["type"] = "meeting", !["limit"] = "1", !["offset"] = "0"],
      [NoQuery EXCEPT !["offset"] = "x"] }

\* the "Apply filters" part of GET /api/events: the filtered array, or the
\* throw of searchEvents
ApplyFilters(q) ==
    LET ranged ==
            IF q["start"] # Undefined /\ q["end"] # Undefined
            THEN GetEventsInRangeOf(q["start"], q["end"])
            ELSE IF q["month"] # Undefined /\ q["year"] # Undefined
            THEN GetEventsInRangeOf(q["year"] \o "-" \o PadStart(q["month"]) \o "-01",
                                    LastDayOfMonth(q["year"], q["month"]))
            ELSE events
        typed ==
            IF q["type"] # Undefined
            THEN SelectSeq(ranged, LAMBDA e : e["type"] = q["type"])
            ELSE ranged
    IN IF q["search"] # Undefined THEN SearchEvents(q["search"])
       ELSE [threw |-> FALSE, result |-> typed]

\* a pagination whose total is counted after the slice
PaginateCountsPage(full, offset, limit) ==
    LET page == Slice(full, offset, Plus(offset, limit)) IN
    [events |-> page,
     total |-> Len(page),
     limit |-> limit,
     offset |-> offset,
     hasMore |-> Plus(offset, limit) # NaN /\ Len(page) > Plus(offset, limit)]

\* the "Pagination" part of GET /api/events and its response
Paginate(full, offset, limit) ==
    [events |-> Slice(full, offset, Plus(offset, limit)),
     total |-> Len(full),
     limit |-> limit,
     offset |-> offset,
     hasMore |-> Plus(offset, limit) # NaN /\ Len(full) > Plus(offset, limit)]

\* Number(limit), Number(offset) with the defaults of the destructuring
LimitOf(q) == IF q["limit"] = Undefined THEN 100 ELSE ToNumber(q["limit"])
OffsetOf(q) == IF q["offset"] = Undefined THEN 0 ELSE ToNumber(q["offset"])

\* GET /api/events
ListRoute(q) ==
    LET filtered == ApplyFilters(q) IN
    /\ lastOp' = [op |-> "list", id |-> Undefined, body |-> q,
                  status |-> IF filtered.threw THEN 500 ELSE 200,
                  ret |-> IF filtered.threw THEN <<>>
                          ELSE <<Paginate(filtered.result, OffsetOf(q), LimitOf(q))>>]
    /\ out' = NoOutput
    /\ UNCHANGED <<events, eventsByDate, writeTimer, now, disk, requests, webhooks, wsClients>>

\* the days parameters of the upcoming requests
DaysParams == {Undefined, "0", "1", "2"}

\* Number(req.query.days) || 7
DaysOf(param) ==
    IF param = Undefined \/ ToNumber(param) = NaN \/ ToNumber(param) = 0 THEN 7
    ELSE ToNumber(param)

\* GET /api/events/upcoming
UpcomingRoute(param) ==
    /\ lastOp' = [op |-> "upcoming", id |-> Undefined,
                  body |-> [NoQuery EXCEPT !["days"] = param],
                  status |-> 200,
                  ret |-> <<[events |-> GetUpcomingEvents(DaysOf(param)),
                             days |-> DaysOf(param)]>>]
    /\ out' = NoOutput
    /\ UNCHANGED <<events, eventsByDate, writeTimer, now, disk, requests, webhooks, wsClients>>

\* request bodies of the query runs
QueryBodies ==
    { Obj(Undefined, "Sync", "2024-01-20", "14:00", "meeting", NoNotifications),
      [Obj(Undefined, "Standup", "2024-01-21", Undefined, "daily", NoNotifications)
           EXCEPT !["description"] = "Team SYNC"],
      Obj(Undefined, "Retro", "2024-01-22", Undefined, Undefined, NoNotifications),
      Obj(Undefined, "Sync", "2024-01-19", Undefined, "meeting", NoNotifications) }

QueryUpdates ==
    { Obj(Undefined, "Sync v2", Undefined, Undefined, Undefined, NoNotifications) }

\* one more mutating request is handled; the queries are not counted
QueryBudget == requests < MaxQueryRequests /\ requests' = requests + 1

NextQuery ==
    \/ NoScript /\ Plain /\ QueryBudget /\ \E eventData \in QueryBodies : AddEvent(eventData)
    \/ NoScript /\ Plain /\ QueryBudget /\ \E eventId \in RequestIds, updates \in QueryUpdates :
           UpdateEvent(eventId, updates)
    \/ NoScript /\ Plain /\ QueryBudget /\ \E eventId \in RequestIds : DeleteEvent(eventId)
    \/ NoScript /\ Plain /\ Tick
    \/ NoScript /\ Plain /\ \E q \in ListQueries : ListRoute(q)
    \/ NoScript /\ Plain /\ \E param \in DaysParams : UpcomingRoute(param)

SpecQuery == Init /\ [][NextQuery]_vars

\* two arrays hold the same objects, each as often
SameBag(a, b) ==
    /\ Len(a) = Len(b)
    /\ \A i \in 1..Len(a) : CountEvent(a, a[i]) = CountEvent(b, a[i])

\* the text is a case-insensitive substring of the field
FieldContains(value, text) ==
    /\ value # Undefined
    /\ Includes(ToLowerCase(Chars(value)), ToLowerCase(Chars(text)))

\* the event satisfies every filter the query supplies
Satisfies(e, q) ==
    /\ (q["start"] # Undefined /\ q["end"] # Undefined) =>
           /\ ParseDate(e["date"]) # NaN
           /\ ParseDate(q["start"]) <= ParseDate(e["date"])
           /\ ParseDate(e["date"]) <= ParseDate(q["end"])
    /\ (q["month"] # Undefined /\ q["year"] # Undefined) =>
           /\ ParseDate(e["date"]) # NaN
           /\ ParseDate(q["year"] \o "-" \o PadStart(q["month"]) \o "-01")
                  <= ParseDate(e["date"])
           /\ ParseDate(e["date"]) <= ParseDate(LastDayOfMonth(q["year"], q["month"]))
    /\ q["type"] # Undefined => e["type"] = q["type"]
    /\ q["search"] # Undefined =>
           \/ FieldContains(e["title"], q["search"])
           \/ FieldContains(e["description"], q["search"])
           \/ FieldContains(e["type"], q["search"])

\* what C12 requires of one step
C12_ListStep ==
    (/\ lastOp'["op"] = "list"
     /\ lastOp'["body"]["limit"] = Undefined
     /\ lastOp'["body"]["offset"] = Undefined) =>
        /\ lastOp'["status"] = 200
        /\ SameBag(lastOp'["ret"][1].events,
                   SelectSeq(events, LAMBDA e : Satisfies(e, lastOp'["body"])))

(* C12: a list request without pagination answers with exactly the stored   *)
(* events that satisfy every filter of the request at once: the inclusive   *)
(* start/end range or the month and year, the type tag, and the search      *)
(* text as a case-insensitive substring of title, description or type.      *)
C12_ListFilters == [][C12_ListStep]_vars

\* what C13 requires of one step
C13_PaginationStep ==
    (/\ lastOp'["op"] = "list"
     /\ lastOp'["status"] = 200
     /\ OffsetOf(lastOp'["body"]) # NaN
     /\ LimitOf(lastOp'["body"]) # NaN) =>
        LET o == OffsetOf(lastOp'["body"])
            l == LimitOf(lastOp'["body"])
            full == ApplyFilters(lastOp'["body"]).result
            page == lastOp'["ret"][1].events
            rest == IF Len(full) > o THEN Len(full) - o ELSE 0
        IN /\ lastOp'["ret"][1].total = Len(full)
           /\ Len(page) = (IF rest < l THEN rest ELSE l)
           /\ \A i \in 1..Len(page) : page[i] = full[o + i]
           /\ lastOp'["ret"][1].hasMore = (Len(full) > o + l)

(* C13: for a list request with offset o and limit l (0 and 100 when not    *)
(* given) the answer's total is the length of the filtered result before    *)
(* pagination, its page is the elements o .. o+l-1 of that result in its    *)
(* order, at most l of them, and hasMore is true exactly when total > o+l.  *)
C13_Pagination == [][C13_PaginationStep]_vars

\* two meetings are stored; type=meeting, limit=1, offset=0 answers with the
\* first of them, total 2 and hasMore
C13_Witness ==
    /\ lastOp["op"] = "list"
    /\ lastOp["body"] = [NoQuery EXCEPT !["type"] = "meeting", !["limit"] = "1",
                                        !["offset"] = "0"]
    /\ Len(events) = 2
    /\ lastOp["ret"][1] = [events |-> <<events[1]>>, total |-> 2, limit |-> 1,
                           offset |-> 0, hasMore |-> TRUE]

\* the day counts asked of getUpcomingEvents
UpcomingDays == {0, 1, 2, 7}

(* C14: in every state that adds, updates and deletes lead to, for every    *)
(* N, getUpcomingEvents(N) holds exactly the stored events whose date lies  *)
(* between today and today + N days, both included.                         *)
C14_UpcomingMatchesStore ==
    \A n \in UpcomingDays :
        SameBag(GetUpcomingEvents(n),
                SelectSeq(events, LAMBDA e :
                    /\ ParseDate(e["date"]) # NaN
                    /\ TodayNumber(now) <= ParseDate(e["date"])
                    /\ ParseDate(e["date"]) <= TodayNumber(now) + n))

----------------------------------------------------------------------------
(* The change notifier: sockets, webhook subscriptions, reminder scanner *)

\* the 'connection' handler of the WebSocket server: the socket joins
\* wsClients and is sent the greeting
WsConnect(c) ==
    /\ wsClients[c] = "ABSENT"
    /\ wsClients' = [wsClients EXCEPT ![c] = "OPEN"]
    /\ lastOp' = [op |-> "ws-connect", id |-> c, body |-> EmptyObject,
                  status |-> 0, ret |-> <<>>]
    /\ out' = [broadcast |-> <<[type |-> "connected", data |-> EmptyObject,
                                sends |-> {c}, failed |-> {}]>>,
               webhooks |-> <<>>]
    /\ UNCHANGED <<events, eventsByDate, writeTimer, now, disk, requests, webhooks>>

\* the connection of a socket is lost without a close frame: nothing runs in
\* the server and readyState stays OPEN
WsBreak(c) ==
    /\ wsClients[c] = "OPEN"
    /\ wsClients' = [wsClients EXCEPT ![c] = "BROKEN"]
    /\ lastOp' = [op |-> "ws-break", id |-> c, body |-> EmptyObject,
                  status |-> 0, ret |-> <<>>]
    /\ out' = NoOutput
    /\ UNCHANGED <<events, eventsByDate, writeTimer, now, disk, requests, webhooks>>

\* the peer starts the closing handshake: readyState becomes CLOSING
WsClosing(c) ==
    /\ wsClients[c] = "OPEN"
    /\ wsClients' = [wsClients EXCEPT ![c] = "CLOSING"]
    /\ lastOp' = [op |-> "ws-closing", id |-> c, body |-> EmptyObject,
                  status |-> 0, ret |-> <<>>]
    /\ out' = NoOutput
    /\ UNCHANGED <<events, eventsByDate, writeTimer, now, disk, requests, webhooks>>

\* 'close' and 'error' handlers that leave the socket in wsClients
WsCloseKeep(c) ==
    /\ wsClients[c] # "ABSENT"
    /\ wsClients' = [wsClients EXCEPT ![c] = "CLOSING"]
    /\ lastOp' = [op |-> "ws-close", id |-> c, body |-> EmptyObject,
                  status |-> 0, ret |-> <<>>]
    /\ out' = NoOutput
    /\ UNCHANGED <<events, eventsByDate, writeTimer, now, disk, requests, webhooks>>

\* the 'close' and 'error' handlers of a socket: wsClients.delete(ws)
WsClose(c) ==
    /\ wsClients[c] # "ABSENT"
    /\ wsClients' = [wsClients EXCEPT ![c] = "ABSENT"]
    /\ lastOp' = [op |-> "ws-close", id |-> c, body |-> EmptyObject,
                  status |-> 0, ret |-> <<>>]
    /\ out' = NoOutput
    /\ UNCHANGED <<events, eventsByDate, writeTimer, now, disk, requests, webhooks>>

\* the variables of the event store
StoreVars == <<events, eventsByDate, writeTimer, disk>>

\* Map.prototype.set
MapSet(map, key, value) ==
    [k \in DOMAIN map \cup {key} |-> IF k = key THEN value ELSE map[k]]

\* the keyData of a key generateApiKey made at time t
KeyData(t) == [createdAt |-> ISOString(t), lastUsed |-> NoTimestamp, requests |-> 0]

\* validateApiKey without its keyData.requests++
ValidateApiKeyNoCount(map, key, t) ==
    IF key \notin DOMAIN map THEN [ok |-> FALSE, map |-> map]
    ELSE [ok |-> TRUE, map |-> [map EXCEPT ![key].lastUsed = ISOString(t)]]

\* DataCache.validateApiKey(key) at time t on the Map: what it returns and
\* the Map it leaves
ValidateApiKey(map, key, t) ==
    IF key \notin DOMAIN map THEN [ok |-> FALSE, map |-> map]
    ELSE [ok |-> TRUE,
          map |-> [map EXCEPT ![key].lastUsed = ISOString(t),
                              ![key].requests = @ + 1]]

\* the values of crypto.randomBytes(32).toString('hex') in the model
Keys == {"k1", "k2"}

\* what a request carries as x-api-key header or apiKey parameter: nothing,
\* or a string
RequestKeys == {Undefined} \cup Keys

\* the part the two middlewares share: apiKey is read and, when it is
\* there, handed to validateApiKey
CheckApiKey(key) ==
    IF key = Undefined
    THEN auth' = NoAuth /\ UNCHANGED apiKeys
    ELSE LET v == ValidateApiKey(apiKeys, key, now) IN
         /\ auth' = [called |-> TRUE, key |-> key, ok |-> v.ok]
         /\ apiKeys' = v.map

\* optionalApiKey: next() in every case
OptionalApiKey(key) == CheckApiKey(key)

\* requireApiKey that lets every request through
RequireApiKeyOpen(key, op, id, Handler) ==
    /\ CheckApiKey(key)
    /\ Handler

\* requireApiKey around the handler of a route: next() when the key is there
\* and valid, else the 401 response
RequireApiKey(key, op, id, Handler) ==
    /\ CheckApiKey(key)
    /\ IF auth'.ok
       THEN Handler
       ELSE /\ lastOp' = [op |-> op, id |-> id, body |-> EmptyObject,
                          status |-> 401, ret |-> <<>>]
            /\ out' = NoOutput
            /\ UNCHANGED <<StoreVars, webhooks, wsClients, notifications, files,
                           server, scans, isAlive, pings, flushLog,
                   browser>>

\* POST /api/keys/generate; randomBytes returns a value no earlier call
\* returned
GenerateApiKey(key) ==
    /\ key \notin DOMAIN apiKeys
    /\ apiKeys' = MapSet(apiKeys, key, KeyData(now))
    /\ auth' = NoAuth
    /\ lastOp' = [op |-> "generate-key", id |-> key, body |-> EmptyObject,
                  status |-> 201, ret |-> <<key>>]
    /\ out' = NoOutput
    /\ UNCHANGED <<StoreVars, now, webhooks, wsClients, notifications, files,
                   server, scans, isAlive, pings, flushLog,
                   browser>>

\* an array without its i-th element
RemoveAt(arr, i) ==
    [j \in 1..(Len(arr) - 1) |-> IF j < i THEN arr[j] ELSE arr[j + 1]]

\* the properties of a subscription
HookFields == {"id", "url", "events", "secret", "createdAt"}

\* JSON.stringify of the subscriptions: a property whose value is undefined
\* is left out of its object
StringifyHooks(hooks) ==
    [i \in 1..Len(hooks) |->
        [f \in {g \in HookFields : g # "secret" \/ hooks[i].secret # NoSecret} |->
            hooks[i][f]]]

\* JSON.parse of the document: a property that is not there reads undefined
ParseHooks(doc) ==
    [i \in 1..Len(doc) |->
        [id |-> doc[i]["id"], url |-> doc[i]["url"], events |-> doc[i]["events"],
         secret |-> IF "secret" \in DOMAIN doc[i] THEN doc[i]["secret"] ELSE NoSecret,
         createdAt |-> doc[i]["createdAt"]]]

\* fs.writeFile(file, data) up to the await on it: the write is in progress;
\* resp is what the request is answered when the write resolves
StartSave(f, data, resp) ==
    [f EXCEPT !.writing = Append(@, [snapshot |-> data, resp |-> resp])]

\* a save whose failure is undone in memory is not modelled by the code: the
\* write in progress settles and the document is what it wrote, or what it
\* was when the write fails; overlapping writes are not ordered by Node
SaveSettled(f, i, ok) ==
    [doc |-> IF ok THEN f.writing[i].snapshot ELSE f.doc,
     writing |-> RemoveAt(f.writing, i)]

\* the catch of the route: res.status(500)
Failed(resp) == [resp EXCEPT !["status"] = 500, !["ret"] = <<>>]

\* the await on saveWebhooks or saveNotifications of a request settling, and
\* the rest of its handler: the response
SaveDone(name, i, ok) ==
    /\ i \in 1..Len(files[name].writing)
    /\ files[name].writing[i].resp["op"] # "shutdown"
    /\ files' = [files EXCEPT ![name] = SaveSettled(@, i, ok)]
    /\ lastOp' = IF ok THEN files[name].writing[i].resp
                 ELSE Failed(files[name].writing[i].resp)
    /\ out' = NoOutput
    /\ auth' = NoAuth
    /\ UNCHANGED <<StoreVars, now, requests, webhooks, wsClients, apiKeys,
                   notifications, server, scans, isAlive, pings, flushLog,
                   browser>>

\* crypto.randomBytes(16).toString('hex'): an id no earlier request got
HookId(n) == "w" \o Digits[n]

\* a request body of POST /api/webhooks
Hook(url, hookEvents, secret) == [url |-> url, events |-> hookEvents, secret |-> secret]

\* an events property that is not there
NoEvents == [array |-> FALSE, tags |-> {Undefined}]

\* request bodies of POST /api/webhooks: a subscription to event.created, two
\* to every type (one with a secret that is a number), one whose events is no
\* array, one without url
HookBodies ==
    { Hook("http://a", Tags({"event.created"}), NoSecret),
      Hook("http://b", Tags({"*"}), StringSecret),
      Hook("http://c", Tags({"*"}), NumberSecret),
      Hook("http://d", NotAnArray, NoSecret),
      Hook(Undefined, Tags({"*"}), NoSecret) }

\* ids a webhook request can name in its URL
HookIds == {HookId(n) : n \in 1..MaxNotifyRequests}

\* a listing that shows the whole subscription
ShownWithSecret(w) == w

\* what POST /api/webhooks answers of the subscription it made
Created(w) == [id |-> w.id, url |-> w.url, events |-> w.events]

\* what GET /api/webhooks shows of a subscription
Shown(w) == [id |-> w.id, url |-> w.url, events |-> w.events, createdAt |-> w.createdAt]

\* GET /api/webhooks
ListWebhooks(key) ==
    /\ RequireApiKey(key, "list-webhooks", Undefined,
          /\ lastOp' = [op |-> "list-webhooks", id |-> Undefined, body |-> EmptyObject,
                        status |-> 200,
                        ret |-> [i \in 1..Len(webhooks) |-> Shown(webhooks[i])]]
          /\ out' = NoOutput
          /\ UNCHANGED <<StoreVars, webhooks, wsClients, notifications, files,
                         server, scans, isAlive, pings, flushLog,
                   browser>>)
    /\ UNCHANGED now

\* POST /api/webhooks with DataCache.addWebhook, up to the await on
\* saveWebhooks
AddWebhook(key, body) ==
    LET newWebhook == [id |-> HookId(requests + 1), url |-> body.url,
                       events |-> body.events, secret |-> body.secret,
                       createdAt |-> ISOString(now)]
    IN /\ RequireApiKey(key, "add-webhook", Undefined,
             /\ IF body.url = Undefined \/ body.events = NoEvents
                THEN /\ lastOp' = [op |-> "add-webhook", id |-> Undefined,
                                   body |-> body, status |-> 400, ret |-> <<>>]
                     /\ UNCHANGED <<webhooks, files>>
                ELSE /\ webhooks' = Append(webhooks, newWebhook)
                     /\ files' = [files EXCEPT !.webhooks =
                            StartSave(@, StringifyHooks(webhooks'),
                                      [op |-> "add-webhook", id |-> newWebhook.id,
                                       body |-> body, status |-> 201,
                                       ret |-> <<Created(newWebhook)>>])]
                     /\ lastOp' = [op |-> "add-webhook", id |-> newWebhook.id,
                                   body |-> body, status |-> 0, ret |-> <<>>]
             /\ out' = NoOutput
             /\ UNCHANGED <<StoreVars, wsClients, notifications, server, scans, isAlive, pings, flushLog,
                   browser>>)
       /\ UNCHANGED now

\* DELETE /api/webhooks/:id with DataCache.removeWebhook, up to the await on
\* saveWebhooks
RemoveWebhook(key, id) ==
    /\ RequireApiKey(key, "remove-webhook", id,
          /\ webhooks' = SelectSeq(webhooks, LAMBDA w : w.id # id)
          /\ files' = [files EXCEPT !.webhooks =
                 StartSave(@, StringifyHooks(webhooks'),
                           [op |-> "remove-webhook", id |-> id, body |-> EmptyObject,
                            status |-> 200, ret |-> <<>>])]
          /\ lastOp' = [op |-> "remove-webhook", id |-> id, body |-> EmptyObject,
                        status |-> 0, ret |-> <<>>]
          /\ out' = NoOutput
          /\ UNCHANGED <<StoreVars, wsClients, notifications, server, scans, isAlive, pings, flushLog,
                   browser>>)
    /\ UNCHANGED now

\* the lead time of the reminder scanner, in minutes
ScannerLead == 15

\* the body of the notificationChecker callback once pending is known
Report(pending) ==
    /\ lastOp' = [op |-> "reminders", id |-> Undefined, body |-> EmptyObject,
                  status |-> 0, ret |-> pending]
    /\ out' = IF Len(pending) > 0
              THEN [broadcast |-> <<Broadcast(wsClients, [type |-> "reminders-due",
                                                          data |-> pending])>>,
                    webhooks |-> [i \in 1..Len(pending) |->
                                     TriggerWebhooks(webhooks, "event.reminder",
                                                     pending[i])]]
              ELSE NoOutput
    /\ UNCHANGED <<events, eventsByDate, writeTimer, now, disk, requests,
                   webhooks, wsClients>>

\* a scanner that reports an event in one tick only
ReminderCheckOnce ==
    Report(SelectSeq(GetEventsNeedingReminders(ScannerLead),
                     LAMBDA r : \A i \in 1..Len(scans) :
                                   \A j \in 1..Len(scans[i].reported) :
                                       scans[i].reported[j] # r.event))

\* the notificationChecker interval callback
ReminderCheck == Report(GetEventsNeedingReminders(ScannerLead))

\* the request body and the ids of the event requests in the notifier runs
NotifyBodies == { Obj(Undefined, "Sync", "2024-01-20", "00:10", "meeting", NoNotifications) }
NotifyUpdates == { Obj(Undefined, "Sync v2", Undefined, Undefined, Undefined, NoNotifications) }
NotifyIds == { NowString(1) }

\* the sockets that connect in the notifier runs
NotifyClients == {"c1"}

\* the key the webhook requests of the notifier runs carry
NotifyKey == "k1"

\* no write of the subscription file is in progress
HooksSettled == files.webhooks.writing = <<>>

\* one more request is handled
NotifyBudget == requests < MaxNotifyRequests /\ requests' = requests + 1

\* The notifier runs are those in which a write of the subscription file
\* settles before the next step.
NextNotify ==
    \/ NoScript /\ Plain /\ HooksSettled /\ NotifyBudget /\ \E eventData \in NotifyBodies : AddEvent(eventData)
    \/ NoScript /\ Plain /\ HooksSettled /\ NotifyBudget /\ \E eventId \in NotifyIds, updates \in NotifyUpdates :
           UpdateEvent(eventId, updates)
    \/ NoScript /\ Plain /\ HooksSettled /\ NotifyBudget /\ \E eventId \in NotifyIds : DeleteEvent(eventId)
    \/ NoScript /\ NotifyBudget /\ HooksSettled /\ \E body \in HookBodies : AddWebhook(NotifyKey, body)
    \/ NoScript /\ NotifyBudget /\ HooksSettled /\ \E id \in HookIds : RemoveWebhook(NotifyKey, id)
    \/ NoScript /\ HooksSettled /\ UNCHANGED requests /\ GenerateApiKey(NotifyKey)
    \/ NoScript /\ \E ok \in BOOLEAN : SaveDone("webhooks", 1, ok)
    \/ NoScript /\ Plain /\ HooksSettled /\ ReminderCheck
    \/ NoScript /\ Plain /\ HooksSettled /\ \E c \in NotifyClients : WsConnect(c)
    \/ NoScript /\ Plain /\ HooksSettled /\ \E c \in NotifyClients : WsBreak(c)
    \/ NoScript /\ Plain /\ HooksSettled /\ \E c \in NotifyClients : WsClosing(c)
    \/ NoScript /\ Plain /\ HooksSettled /\ \E c \in NotifyClients : WsClose(c)
    \/ NoScript /\ Plain /\ HooksSettled /\ Settled /\ FlushFire
    \/ NoScript /\ Plain /\ HooksSettled /\ \E i \in 1..MaxNotifyRequests, ok \in BOOLEAN : WriteDone(i, ok)

SpecNotify == Init /\ [][NextNotify]_vars

\* what C19 requires of one step
C19_OutcomeStep ==
    lastOp'["op"] \in MutationOps =>
        LET found == FindIndex(events, lastOp'["id"]) # 0 IN
        /\ lastOp'["op"] = "add" => lastOp'["status"] = 201
        /\ lastOp'["op"] \in {"update", "delete"} =>
               lastOp'["status"] = (IF found THEN 200 ELSE 404)
        /\ Succeeded(lastOp') =>
               /\ Len(out'.broadcast) = 1
               /\ Len(out'.webhooks) = 1
               /\ ~out'.webhooks[1].rejected =>
                      Len(out'.webhooks[1].calls) =
                          Cardinality({i \in 1..Len(webhooks) :
                                          IsRelevant(webhooks[i], out'.webhooks[1].event)})
               /\ writeTimer'.handle = "pending"
               /\ writeTimer'.armed >= 1

(* C19: what add, update and delete answer is fixed by the store alone      *)
(* (add: 201; update and delete: 200 when the id is stored, else 404),      *)
(* whatever sockets are broken, whatever webhook calls fail and whether an  *)
(* earlier write failed; a mutation that was applied is broadcast, has its  *)
(* webhooks dispatched, with a call for every relevant subscription also    *)
(* after a call that failed, and leaves a flush armed.                      *)
C19_OutcomeFromStore == [][C19_OutcomeStep]_vars

\* a write has failed, then an update is applied and answers 200 although its
\* send to a broken socket and its webhook call fail; the flush is armed
C19_Witness ==
    /\ lastOp["op"] = "update"
    /\ lastOp["status"] = 200
    /\ disk.failed
    /\ out.broadcast[1].failed # {}
    /\ Len(out.webhooks[1].calls) = 1
    /\ ~out.webhooks[1].calls[1].ok
    /\ writeTimer = [handle |-> "pending", armed |-> 1]

\* what C20 requires of one step
C20_DeliveryStep ==
    \A k \in 1..Len(out'.webhooks) :
        LET dispatch == out'.webhooks[k]
            callsTo(id) == Cardinality({j \in 1..Len(dispatch.calls) :
                                           dispatch.calls[j].id = id})
        IN /\ \A i \in 1..Len(webhooks) :
                  callsTo(webhooks[i].id) =
                      (IF IsRelevant(webhooks[i], dispatch.event) THEN 1 ELSE 0)
           /\ \A j \in 1..Len(dispatch.calls) :
                  \E i \in 1..Len(webhooks) : webhooks[i].id = dispatch.calls[j].id

(* C20: every dispatch of event.created, event.updated, event.deleted or    *)
(* event.reminder calls each registered subscription whose event types      *)
(* hold that type or '*' exactly once, calls no other subscription, and     *)
(* calls no subscription that is not, or no longer, registered.             *)
C20_OneAttemptEach == [][C20_DeliveryStep]_vars

----------------------------------------------------------------------------
(* The reminder scanner on its own: events with and without times, the      *)
(* clock, the scanner                                                       *)

\* request bodies of the reminder runs, all but two dated today: at 00:10,
\* at 00:20, without time, at 00:15:00.002, at 00:00:00.002, at 00:10 of
\* yesterday, at 00:10 without date
ReminderBodies ==
    { Obj(Undefined, "Sync", "2024-01-20", "00:10", "meeting", NoNotifications),
      Obj(Undefined, "Retro", "2024-01-20", "00:20", "meeting", NoNotifications),
      Obj(Undefined, "Standup", "2024-01-20", Undefined, "daily", NoNotifications),
      Obj(Undefined, "Sync", "2024-01-20", "00:15:00.002", "daily", NoNotifications),
      Obj(Undefined, "Standup", "2024-01-20", "00:00:00.002", "meeting", NoNotifications),
      Obj(Undefined, "Sync", "2024-01-19", "00:10", "daily", NoNotifications),
      Obj(Undefined, "Retro", Undefined, "00:10", "daily", NoNotifications) }

NextReminder ==
    \/ NoScript /\ Plain /\ QueryBudget /\ \E eventData \in ReminderBodies : AddEvent(eventData)
    \/ NoScript /\ Plain /\ Tick
    \/ NoScript /\ Plain /\ ReminderCheck

SpecReminder == Init /\ [][NextReminder]_vars

\* the lead times asked of getEventsNeedingReminders, in minutes
LeadTimes == {15, 30}

\* the events of an array of reminders
EventsOf(reminders) == [i \in 1..Len(reminders) |-> reminders[i].event]

(* C15: getEventsNeedingReminders(M) returns exactly the stored events that *)
(* have a date and a time whose timestamp T satisfies now < T <= now + M    *)
(* minutes, each once and in store order; no event with T <= now, with      *)
(* T > now + M minutes or without date or time is returned.                 *)
C15_DueForReminder ==
    \A m \in LeadTimes :
        EventsOf(GetEventsNeedingReminders(m)) =
            SelectSeq(events, LAMBDA e :
                /\ e["date"] # Undefined
                /\ e["time"] # Undefined
                /\ EventTime(e["date"], e["time"], now) # NaN
                /\ NowMs(now) < EventTime(e["date"], e["time"], now)
                /\ EventTime(e["date"], e["time"], now) <= NowMs(now) + m * 60000)

\* the events at now + 10 min and now + 20 min are stored and the scanner,
\* with its lead time of 15 minutes, has reported the first only
C15_Witness ==
    /\ lastOp["op"] = "reminders"
    /\ Len(events) = 2
    /\ events[1]["time"] = "00:10"
    /\ events[2]["time"] = "00:20"
    /\ events[2]["date"] = Today(now)
    /\ EventsOf(lastOp["ret"]) = <<events[1]>>
    /\ lastOp["ret"][1].minutesUntil = 9

----------------------------------------------------------------------------
(* The test script runTests: create, get, update, delete on one event,      *)
(* while other callers create events of their own                           *)

\* GET /api/events/:id
GetRoute(id) ==
    /\ lastOp' = [op |-> "get", id |-> id, body |-> EmptyObject,
                  status |-> IF GetEvent(id) = <<>> THEN 404 ELSE 200,
                  ret |-> GetEvent(id)]
    /\ out' = NoOutput
    /\ UNCHANGED <<events, eventsByDate, writeTimer, now, disk, requests,
                   webhooks, wsClients>>

\* testEvent of runTests, and the body of its update request
TestEvent ==
    [Obj(Undefined, "API Test Event", Today(1), "14:00", "meeting", NoNotifications)
        EXCEPT !["description"] = "Test event created by API test"]
TestUpdate ==
    Obj(Undefined, "Updated Test Event", Undefined, Undefined, Undefined, NoNotifications)

\* request bodies of the other callers
OtherBodies ==
    { Obj(Undefined, "Standup", "2024-01-21", Undefined, "daily", NoNotifications),
      Obj(Undefined, "Retro", "2024-01-20", "00:10", "meeting", NoNotifications) }

\* 'Create Event': POST /api/events, keeping createResult.event
RunCreate ==
    /\ client.pc = "create"
    /\ AddEvent(TestEvent)
    /\ client' = [pc |-> "get", id |-> lastOp'["id"], created |-> lastOp'["ret"][1]]
    /\ UNCHANGED requests

\* 'Get Single Event'
RunGet ==
    /\ client.pc = "get"
    /\ GetRoute(client.id)
    /\ client' = [client EXCEPT !.pc = "update"]

\* 'Update Event'
RunUpdate ==
    /\ client.pc = "update"
    /\ UpdateEvent(client.id, TestUpdate)
    /\ client' = [client EXCEPT !.pc = "delete"]
    /\ UNCHANGED requests

\* 'Delete Event'
RunDelete ==
    /\ client.pc = "delete"
    /\ DeleteEvent(client.id)
    /\ client' = [client EXCEPT !.pc = "get-deleted"]
    /\ UNCHANGED requests

\* the get and the list that follow the delete
RunGetDeleted ==
    /\ client.pc = "get-deleted"
    /\ GetRoute(client.id)
    /\ client' = [client EXCEPT !.pc = "list"]

RunList ==
    /\ client.pc = "list"
    /\ ListRoute(NoQuery)
    /\ client' = [client EXCEPT !.pc = "done"]

NextCrud ==
    \/ Plain /\ RunCreate
    \/ Plain /\ RunGet
    \/ Plain /\ RunUpdate
    \/ Plain /\ RunDelete
    \/ Plain /\ RunGetDeleted
    \/ Plain /\ RunList
    \/ NoScript /\ Plain /\ Budget /\ \E eventData \in OtherBodies : AddEvent(eventData)
    \/ NoScript /\ Plain /\ Tick

SpecCrud == Init /\ [][NextCrud]_vars

\* what C11 requires of one step of the script
C11_ScriptStep ==
    /\ (client.pc = "create" /\ client'.pc = "get") =>
           /\ lastOp'["status"] = 201
           /\ client'.id # Undefined
    /\ (client.pc = "get" /\ client'.pc = "update") =>
           /\ lastOp'["status"] = 200
           /\ lastOp'["ret"] = <<client.created>>
    /\ (client.pc = "update" /\ client'.pc = "delete") =>
           /\ lastOp'["status"] = 200
           /\ lastOp'["ret"] = <<[client.created EXCEPT
                                     !["title"] = TestUpdate["title"],
                                     !["updatedAt"] = ISOString(now)]>>
    /\ (client.pc = "delete" /\ client'.pc = "get-deleted") =>
           lastOp'["status"] = 200
    /\ (client.pc = "get-deleted" /\ client'.pc = "list") =>
           lastOp'["status"] = 404
    /\ (client.pc = "list" /\ client'.pc = "done") =>
           /\ lastOp'["status"] = 200
           /\ CountId(lastOp'["ret"][1].events, client.id) = 0

(* C11: in the sequence create, get, update of the title, delete on one     *)
(* event every request succeeds: the create answers with a non-empty id,    *)
(* the get with the created event, the update with that event changed in    *)
(* its title and update timestamp only; after the delete, get of the id     *)
(* answers not-found and the list holds no event of that id.                *)
C11_CrudSequence == [][C11_ScriptStep]_vars

----------------------------------------------------------------------------
(* The notification history *)

\* the cap of the history
HistoryCap == 1000

\* the record addNotification makes of { eventId, method, status } at time t
NewNotification(eventId, body, t) ==
    [id |-> NowString(t),
     eventId |-> eventId,
     method |-> IF body.method = Undefined THEN "unknown" ELSE body.method,
     status |-> IF body.status = Undefined THEN "sent" ELSE body.status,
     sentAt |-> ISOString(t)]

\* Array.prototype.slice(-n) for n > 0
SliceLast(arr, n) ==
    IF Len(arr) > n THEN SubSeq(arr, Len(arr) - n + 1, Len(arr)) ELSE arr

\* an addNotification that evicts the newest records
PushNotificationKeepFirst(history, record) ==
    LET pushed == Append(history, record) IN
    IF Len(pushed) > HistoryCap THEN SubSeq(pushed, 1, HistoryCap) ELSE pushed

\* this.notifications.push(newNotification) and the cut to the last 1000
PushNotification(history, record) ==
    LET pushed == Append(history, record) IN
    IF Len(pushed) > HistoryCap THEN SliceLast(pushed, HistoryCap) ELSE pushed

\* POST /api/notifications/:eventId/sent with DataCache.addNotification, up
\* to the await on saveNotifications; every property of a record is a string,
\* so the document holds the records as they are
AddNotification(key, eventId, body) ==
    LET newNotification == NewNotification(eventId, body, now) IN
    /\ OptionalApiKey(key)
    /\ notifications' = PushNotification(notifications, newNotification)
    /\ files' = [files EXCEPT !.notifications =
           StartSave(@, notifications',
                     [op |-> "add-notification", id |-> eventId, body |-> EmptyObject,
                      status |-> 200, ret |-> <<newNotification>>])]
    /\ lastOp' = [op |-> "add-notification", id |-> eventId, body |-> EmptyObject,
                  status |-> 0, ret |-> <<newNotification>>]
    /\ out' = NoOutput
    /\ UNCHANGED <<StoreVars, now, webhooks, wsClients, server, scans, isAlive, pings, flushLog,
                   browser>>

\* Number(req.query.limit) || 100
HistoryLimitOf(param) ==
    IF param = Undefined \/ ToNumber(param) = NaN \/ ToNumber(param) = 0 THEN 100
    ELSE ToNumber(param)

\* GET /api/notifications/history
History(key, param) ==
    /\ RequireApiKey(key, "history", Undefined,
          /\ lastOp' = [op |-> "history", id |-> Undefined, body |-> EmptyObject,
                        status |-> 200,
                        ret |-> <<[notifications |->
                                      SliceLast(notifications, HistoryLimitOf(param)),
                                   total |-> Len(notifications)]>>]
          /\ out' = NoOutput
          /\ UNCHANGED <<StoreVars, webhooks, wsClients, notifications, files,
                         server, scans, isAlive, pings, flushLog,
                   browser>>)
    /\ UNCHANGED now

----------------------------------------------------------------------------
(* The privileged routes and the key registry on their own: keys are        *)
(* generated, requests carry no key, a key that was issued or one that was  *)
(* not, and the writes of the subscription file settle in any order.        *)

MaxAdminRequests == 3  \* the server handles at most this many requests in these runs

AdminBudget == requests < MaxAdminRequests /\ requests' = requests + 1

\* request bodies of POST /api/webhooks in these runs
AdminHookBodies ==
    { Hook("http://a", Tags({"event.created"}), NoSecret),
      Hook("http://b", Tags({"*"}), StringSecret),
      Hook("http://c", NoEvents, NoSecret) }

AdminHookIds == {HookId(n) : n \in 1..MaxAdminRequests}

\* the limit parameter of GET /api/notifications/history in these runs
HistoryLimits == {Undefined, "1"}

\* the body of POST /api/notifications/:eventId/sent in these runs
SentBody == [method |-> "push", status |-> Undefined]

\* a request on a route behind optionalApiKey
Keyed(key) ==
    /\ OptionalApiKey(key)
    /\ UNCHANGED <<notifications, files, server, scans, isAlive, pings, flushLog,
                   browser>>

NextAdmin ==
    \/ NoScript /\ AdminBudget /\ \E key \in Keys : GenerateApiKey(key)
    \/ NoScript /\ AdminBudget /\ \E key \in RequestKeys : ListWebhooks(key)
    \/ NoScript /\ AdminBudget /\ \E key \in RequestKeys, body \in AdminHookBodies :
           AddWebhook(key, body)
    \/ NoScript /\ AdminBudget /\ \E key \in RequestKeys, id \in AdminHookIds :
           RemoveWebhook(key, id)
    \/ NoScript /\ AdminBudget /\ \E key \in RequestKeys, param \in HistoryLimits :
           History(key, param)
    \/ NoScript /\ AdminBudget /\ \E key \in RequestKeys :
           AddNotification(key, NowString(1), SentBody)
    \/ NoScript /\ AdminBudget /\ \E key \in RequestKeys :
           Keyed(key) /\ AddEvent(TestUpdate)
    \/ NoScript /\ \E name \in {"webhooks", "notifications"}, i \in 1..MaxAdminRequests,
                      ok \in BOOLEAN : SaveDone(name, i, ok)
    \/ NoScript /\ Plain /\ Tick

SpecAdmin == Init /\ [][NextAdmin]_vars

(* C21: whenever no webhook request is in flight (every registration and    *)
(* deletion has been answered, with success or with a failed save), the     *)
(* subscription list read back from WEBHOOKS_FILE equals the list in        *)
(* memory.                                                                  *)
C21_FileMatchesMemory ==
    files.webhooks.writing = <<>> => ParseHooks(files.webhooks.doc) = webhooks

\* the routes behind requireApiKey
AdminOps == {"list-webhooks", "add-webhook", "remove-webhook", "history"}

\* what C23 requires of one step
C23_ValidateStep ==
    /\ auth'.called =>
           /\ auth'.ok <=> auth'.key \in DOMAIN apiKeys
           /\ auth'.ok =>
                  apiKeys' = [apiKeys EXCEPT ![auth'.key].requests = @ + 1,
                                             ![auth'.key].lastUsed = ISOString(now)]
           /\ ~auth'.ok => apiKeys' = apiKeys
    /\ ~auth'.called => \A k \in DOMAIN apiKeys : apiKeys'[k] = apiKeys[k]
    /\ DOMAIN apiKeys' =
           DOMAIN apiKeys \cup (IF lastOp'["op"] = "generate-key"
                                THEN {lastOp'["ret"][1]} ELSE {})
    /\ \A k \in DOMAIN apiKeys' \ DOMAIN apiKeys :
           apiKeys'[k].requests = 0 /\ apiKeys'[k].lastUsed = NoTimestamp

(* C23: validateApiKey returns true exactly for a key an earlier            *)
(* generateApiKey returned (the registry holds the keys the generate        *)
(* responses carried, and no others); a call that returns true adds one to  *)
(* that key's requests and sets its lastUsed to the time of the call and    *)
(* changes nothing else; a call that returns false changes nothing; no      *)
(* other step changes a counter, and a new key starts at 0; so a key's      *)
(* counter is the number of calls on it that returned true.                 *)
C23_Validate == [][C23_ValidateStep]_vars

\* a key has been validated twice, at two times, and a request with another
\* key was turned away
C23_Witness ==
    /\ DOMAIN apiKeys = {"k1"}
    /\ apiKeys["k1"].requests = 2
    /\ apiKeys["k1"].lastUsed = ISOString(2)
    /\ apiKeys["k1"].createdAt = ISOString(1)
    /\ auth = [called |-> TRUE, key |-> "k1", ok |-> TRUE]

\* what C24 requires of one step
C24_GateStep ==
    /\ (requests' # requests /\ lastOp'["op"] \in AdminOps) =>
           IF auth'.called /\ auth'.key \in DOMAIN apiKeys
           THEN lastOp'["status"] # 401
           ELSE /\ lastOp'["status"] = 401
                /\ lastOp'["ret"] = <<>>
                /\ UNCHANGED <<webhooks, files, notifications>>
    /\ webhooks' # webhooks => auth'.called /\ auth'.key \in DOMAIN apiKeys

(* C24: GET, POST and DELETE on /api/webhooks and GET                       *)
(* /api/notifications/history run their handler only when the request      *)
(* carries a key that was issued; without a key, or with a key that was     *)
(* not issued, the answer is 401, nothing is returned and the webhook list  *)
(* and its file stay as they are; the webhook list changes in no other      *)
(* step.                                                                    *)
C24_KeyGate == [][C24_GateStep]_vars

\* a key is issued and a subscription registered with it; a POST
\* /api/webhooks with a key that was not issued has just been answered 401
C24_Witness ==
    /\ lastOp["op"] = "add-webhook"
    /\ lastOp["status"] = 401
    /\ auth = [called |-> TRUE, key |-> "k2", ok |-> FALSE]
    /\ DOMAIN apiKeys = {"k1"}
    /\ Len(webhooks) = 1

----------------------------------------------------------------------------
(* The notification history on its own: the server starts on the history    *)
(* file an earlier run left, then notifications are recorded.               *)

MaxNotifications == 3  \* at most this many notifications are recorded in a run

\* the decimal digits of a natural number
RECURSIVE Decimal(_)
Decimal(n) ==
    LET digit == <<"0", "1", "2", "3", "4", "5", "6", "7", "8", "9">> IN
    IF n < 10 THEN digit[n + 1] ELSE Decimal(n \div 10) \o digit[(n % 10) + 1]

\* the time an earlier run of the server recorded its notifications at
EarlierRun == <<"2024-01-19", "00:00:00.000Z">>

\* the history file an earlier run left after k notifications, one for each
\* of the events "1" .. "k"
Loaded(k) ==
    [i \in 1..k |-> [id |-> "0", eventId |-> Decimal(i), method |-> "push",
                     status |-> "sent", sentAt |-> EarlierRun]]

\* the lengths of the history file at the start
HistoryLengths == {0, HistoryCap - 1, HistoryCap}

HistoryBudget == requests < MaxNotifications /\ requests' = requests + 1

\* the events and the bodies of the requests in these runs
HistoryEventIds == {"1", "2"}
HistoryBodies == {SentBody, [method |-> Undefined, status |-> "failed"]}

\* no write of the history file is in progress
HistorySettled == files.notifications.writing = <<>>

InitHistory == \E k \in HistoryLengths : InitWith(Loaded(k))

\* The runs in which a write of the history file settles before the next
\* request.
NextHistory ==
    \/ NoScript /\ HistoryBudget /\ HistorySettled
           /\ \E eventId \in HistoryEventIds, body \in HistoryBodies :
                  AddNotification(Undefined, eventId, body)
    \/ NoScript /\ \E ok \in BOOLEAN : SaveDone("notifications", 1, ok)

SpecHistory == InitHistory /\ [][NextHistory]_vars

\* what C22 requires of one step
C22_HistoryStep ==
    /\ Len(notifications') <= HistoryCap
    /\ IF lastOp'["op"] = "add-notification" /\ requests' # requests
       THEN LET record == lastOp'["ret"][1] IN
            notifications' =
                IF Len(notifications) < HistoryCap
                THEN Append(notifications, record)
                ELSE Append(Tail(notifications), record)
       ELSE notifications' = notifications

(* C22: the history never holds more than 1000 records; recording a         *)
(* notification appends its record, and when the history already holds      *)
(* 1000 the oldest record is dropped, the others keeping their order with   *)
(* the new record last; no other step changes the history.                  *)
C22_HistoryCapped == [][C22_HistoryStep]_vars

\* a history of 1000 records was loaded and two notifications were recorded:
\* the two oldest records are gone, the third oldest is now the first, the
\* two new ones are the last
C22_Witness ==
    /\ Len(notifications) = HistoryCap
    /\ requests = 2
    /\ notifications[1] = Loaded(3)[3]
    /\ notifications[HistoryCap - 2] = Loaded(HistoryCap)[HistoryCap]
    /\ notifications[HistoryCap - 1].sentAt = ISOString(now)
    /\ notifications[HistoryCap] = lastOp["ret"][1]

----------------------------------------------------------------------------
(* The GET routes below /api/events/ and the router that chooses among them *)

\* the one-segment GET routes below /api/events/ in the order app.get
\* registered them
EventRoutes == <<"today", "upcoming", "search", ":id", "reminders">>

\* a route path matches a request path: a parameter takes any segment
MatchesRoute(route, segment) == route = ":id" \/ route = segment

\* the route express hands the request to: the first one registered that
\* matches (every handler here answers, none calls next())
Dispatch(segment) ==
    EventRoutes[CHOOSE i \in 1..Len(EventRoutes) :
                    /\ MatchesRoute(EventRoutes[i], segment)
                    /\ \A j \in 1..(i - 1) : ~MatchesRoute(EventRoutes[j], segment)]

\* GET /api/events/today
TodayRoute ==
    /\ lastOp' = [op |-> "today", id |-> Undefined, body |-> EmptyObject,
                  status |-> 200,
                  ret |-> <<[events |-> GetTodayEvents, date |-> Today(now)]>>]
    /\ out' = NoOutput
    /\ UNCHANGED <<events, eventsByDate, writeTimer, now, disk, requests,
                   webhooks, wsClients>>

\* GET /api/events/search
SearchRoute(q) ==
    /\ lastOp' = [op |-> "search", id |-> Undefined,
                  body |-> [NoQuery EXCEPT !["search"] = q],
                  status |-> IF q = Undefined THEN 400
                             ELSE IF SearchEvents(q).threw THEN 500 ELSE 200,
                  ret |-> IF q = Undefined \/ SearchEvents(q).threw THEN <<>>
                          ELSE <<[events |-> SearchEvents(q).result,
                                  count |-> Len(SearchEvents(q).result)]>>]
    /\ out' = NoOutput
    /\ UNCHANGED <<events, eventsByDate, writeTimer, now, disk, requests,
                   webhooks, wsClients>>

\* Number(req.query.minutes) || 15
MinutesOf(param) ==
    IF param = Undefined \/ ToNumber(param) = NaN \/ ToNumber(param) = 0 THEN 15
    ELSE ToNumber(param)

\* the handler of GET /api/events/reminders
RemindersRoute(param) ==
    /\ lastOp' = [op |-> "reminders-route", id |-> Undefined, body |-> EmptyObject,
                  status |-> 200,
                  ret |-> <<[events |-> GetEventsNeedingReminders(MinutesOf(param)),
                             minutes |-> MinutesOf(param)]>>]
    /\ out' = NoOutput
    /\ UNCHANGED <<events, eventsByDate, writeTimer, now, disk, requests,
                   webhooks, wsClients>>

\* GET /api/events/<segment>?<name>=<param>
GetEventsPath(segment, param) ==
    CASE Dispatch(segment) = "today" -> TodayRoute
      [] Dispatch(segment) = "upcoming" -> UpcomingRoute(param)
      [] Dispatch(segment) = "search" -> SearchRoute(param)
      [] Dispatch(segment) = ":id" -> GetRoute(segment)
      [] Dispatch(segment) = "reminders" -> RemindersRoute(param)

\* the requests of these runs: the last segment of the path and the value of
\* its days, q or minutes parameter
PathRequests ==
    { <<"today", Undefined>>, <<"upcoming", "2">>, <<"search", "sy">>,
      <<"search", Undefined>>, <<"reminders", "60">>, <<"reminders", Undefined>>,
      <<NowString(1), Undefined>> }

NextRoutes ==
    \/ NoScript /\ Plain /\ QueryBudget /\ \E eventData \in ReminderBodies : AddEvent(eventData)
    \/ NoScript /\ Plain /\ Tick
    \/ NoScript /\ Plain /\ \E request \in PathRequests :
           GetEventsPath(request[1], request[2])

SpecRoutes == Init /\ [][NextRoutes]_vars

\* what C25 requires of one step: the two ways GET /api/events/reminders
\* can be answered are the single-event lookup with id "reminders" and the
\* reminders handler
C25_RemindersStep ==
    /\ ~(lastOp'["op"] = "get" /\ lastOp'["id"] = "reminders")
    /\ lastOp'["op"] = "reminders-route" =>
           /\ lastOp'["status"] = 200
           /\ \E m \in {15, 60} :
                  lastOp'["ret"][1].events = GetEventsNeedingReminders(m)

(* C25: GET /api/events/reminders is answered by the reminders handler,     *)
(* with 200 and the events getEventsNeedingReminders(minutes) returns, and  *)
(* never by the single-event route taking "reminders" for an id.            *)
C25_RemindersRoute == [][C25_RemindersStep]_vars

----------------------------------------------------------------------------
(* Graceful shutdown: the SIGTERM handler, turn by turn, among the requests *)
(* and timers that still run while it waits for its writes                  *)

\* the process runs
Alive == ~server.exited

\* the HTTP server takes requests and socket connections
Listening == server.listening /\ ~server.exited

\* the handler has performed this step
Did(step) == \E i \in 1..Len(server.steps) : server.steps[i] = step

\* ws.close() on every socket of wss.clients: readyState becomes CLOSING
CloseAll(clients) ==
    [c \in DOMAIN clients |-> IF clients[c] = "ABSENT" THEN "ABSENT" ELSE "CLOSING"]

\* the response slot of a write the SIGTERM handler awaits
ShutdownResp == [op |-> "shutdown", id |-> Undefined, body |-> EmptyObject,
                 status |-> 0, ret |-> <<>>]

\* process.on('SIGTERM') up to its first await: the two intervals are
\* cleared, the sockets are closed, writeEvents starts its write
Sigterm ==
    /\ server.steps = <<>>
    /\ server' = [server EXCEPT !.checker = FALSE,
                                !.steps = <<"clearInterval", "ws.close", "writeEvents">>,
                                !.awaiting = Len(disk.writing) + 1]
    /\ wsClients' = CloseAll(wsClients)
    /\ disk' = WriteEvents(disk, events)
    /\ lastOp' = [ShutdownResp EXCEPT !["id"] = "SIGTERM"]
    /\ out' = NoOutput
    /\ auth' = NoAuth
    /\ UNCHANGED <<events, eventsByDate, writeTimer, now, requests, webhooks,
                   apiKeys, notifications, files, scans, isAlive, pings, flushLog,
                   browser>>

\* what the settling of the i-th write of DATA_FILE means to the SIGTERM
\* handler: when it is the write the handler awaits, writeEvents returns
\* (true or false) and the handler goes on to saveWebhooks
AfterWrite(i) ==
    /\ IF server.awaiting = i
       THEN /\ server' = [server EXCEPT !.steps = Append(@, "saveWebhooks"),
                                        !.awaiting = 0]
            /\ files' = [files EXCEPT !.webhooks =
                   StartSave(@, StringifyHooks(webhooks), ShutdownResp)]
       ELSE /\ server' = [server EXCEPT !.awaiting = IF @ > i THEN @ - 1 ELSE @]
            /\ UNCHANGED files
    /\ auth' = NoAuth
    /\ UNCHANGED <<apiKeys, notifications, scans, isAlive, pings, flushLog,
                   browser>>

\* the position of the handler's write among the writes of a file
ShutdownWrite(f) ==
    {i \in 1..Len(f.writing) : f.writing[i].resp["op"] = "shutdown"}

\* the await on saveWebhooks settling: the handler goes on to
\* saveNotifications, or, the handler having no catch, its promise rejects
\* and nothing of it runs any more; whether the process then ends depends on
\* how Node treats the unhandled rejection
WebhooksSaved(ok, ends) ==
    /\ Did("saveWebhooks") /\ ~Did("saveNotifications")
    /\ \E i \in ShutdownWrite(files.webhooks) :
           files' = [files EXCEPT
               !.webhooks = SaveSettled(@, i, ok),
               !.notifications = IF ok THEN StartSave(@, notifications, ShutdownResp)
                                 ELSE @]
    /\ server' = [server EXCEPT
           !.steps = Append(@, IF ok THEN "saveNotifications" ELSE "rejected"),
           !.exited = ~ok /\ ends]
    /\ lastOp' = [ShutdownResp EXCEPT !["id"] = "saveWebhooks",
                                      !["status"] = IF ok THEN 200 ELSE 500]
    /\ out' = NoOutput
    /\ auth' = NoAuth
    /\ UNCHANGED <<StoreVars, now, requests, webhooks, wsClients, apiKeys,
                   notifications, scans, isAlive, pings, flushLog,
                   browser>>

\* the await on saveNotifications settling: server.close(), or the rejection
NotificationsSaved(ok, ends) ==
    /\ Did("saveNotifications")
    /\ \E i \in ShutdownWrite(files.notifications) :
           files' = [files EXCEPT !.notifications = SaveSettled(@, i, ok)]
    /\ server' = [server EXCEPT
           !.steps = Append(@, IF ok THEN "server.close" ELSE "rejected"),
           !.listening = ~ok,
           !.exited = ~ok /\ ends]
    /\ lastOp' = [ShutdownResp EXCEPT !["id"] = "saveNotifications",
                                      !["status"] = IF ok THEN 200 ELSE 500]
    /\ out' = NoOutput
    /\ auth' = NoAuth
    /\ UNCHANGED <<StoreVars, now, requests, webhooks, wsClients, apiKeys,
                   notifications, scans, isAlive, pings, flushLog,
                   browser>>

\* the callback of server.close: every connection has ended; process.exit(0)
ServerClosed ==
    /\ Did("server.close")
    /\ \A c \in DOMAIN wsClients : wsClients[c] = "ABSENT"
    /\ server' = [server EXCEPT !.exited = TRUE, !.steps = Append(@, "process.exit")]
    /\ lastOp' = [ShutdownResp EXCEPT !["id"] = "exit"]
    /\ out' = NoOutput
    /\ auth' = NoAuth
    /\ UNCHANGED <<StoreVars, now, requests, webhooks, wsClients, apiKeys,
                   notifications, files, scans, isAlive, pings, flushLog,
                   browser>>

MaxShutdownRequests == 2  \* the server handles at most this many requests in these runs

ShutdownBudget == requests < MaxShutdownRequests /\ requests' = requests + 1

NextShutdown ==
    \/ NoScript /\ Plain /\ Listening /\ ShutdownBudget
           /\ \E eventData \in NotifyBodies : AddEvent(eventData)
    \/ NoScript /\ Plain /\ Listening /\ \E c \in NotifyClients : WsConnect(c)
    \/ NoScript /\ Plain /\ Alive /\ \E c \in NotifyClients : WsClose(c)
    \/ NoScript /\ Plain /\ Alive /\ server.checker /\ ReminderCheck
    \/ NoScript /\ Plain /\ Alive /\ FlushFire
    \/ NoScript /\ Alive /\ \E i \in 1..(MaxShutdownRequests + 1), ok \in BOOLEAN :
           WriteDone(i, ok) /\ AfterWrite(i)
    \/ NoScript /\ Alive /\ Sigterm
    \/ NoScript /\ Alive /\ \E ok, ends \in BOOLEAN : WebhooksSaved(ok, ends)
    \/ NoScript /\ Alive /\ \E ok, ends \in BOOLEAN : NotificationsSaved(ok, ends)
    \/ NoScript /\ Alive /\ ServerClosed

SpecShutdown == Init /\ [][NextShutdown]_vars

\* the place the claim gives each step of the handler: 1 the server stops
\* accepting, 2 the timers are stopped, 3 the final flush (of the three
\* files) is forced, 4 the connections of the live subscribers are closed
Place(step) ==
    CASE step = "server.close" -> 1
      [] step = "clearInterval" -> 2
      [] step \in {"writeEvents", "saveWebhooks", "saveNotifications"} -> 3
      [] step = "ws.close" -> 4
      [] OTHER -> 5

(* C26: the steps the SIGTERM handler has performed are in the order stop   *)
(* accepting, stop the timers, force the final flush, close the subscriber  *)
(* connections: none of them was performed before a step that comes         *)
(* earlier in that order.                                                   *)
C26_ShutdownOrder ==
    \A i, j \in 1..Len(server.steps) :
        i < j => Place(server.steps[i]) <= Place(server.steps[j])

----------------------------------------------------------------------------
(* Loading: the process ends and startServer runs again on the files        *)

\* a rebuild of the index that files only the events that have a date
RECURSIVE RebuildIndexDated(_)
RebuildIndexDated(arr) ==
    IF arr = <<>> THEN [k \in IndexKeys |-> <<>>]
    ELSE LET event == arr[Len(arr)]
             index == RebuildIndexDated(SubSeq(arr, 1, Len(arr) - 1))
         IN IF event["date"] = Undefined THEN index
            ELSE [index EXCEPT ![event["date"]] = Append(@, event)]

\* this.eventsByDate = {}; this.events.forEach(event => ... push(event))
RECURSIVE RebuildIndex(_)
RebuildIndex(arr) ==
    IF arr = <<>> THEN [k \in IndexKeys |-> <<>>]
    ELSE LET event == arr[Len(arr)]
             index == RebuildIndex(SubSeq(arr, 1, Len(arr) - 1))
         IN [index EXCEPT ![event["date"]] = Append(@, event)]

\* DataCache.loadEvents on a document: the store and the index it leaves
LoadEvents(doc) ==
    [events |-> Parse(doc), eventsByDate |-> RebuildIndex(Parse(doc))]

\* the process ends while no write is in progress and is started again:
\* the constructor, then startServer with loadEvents, loadWebhooks and
\* loadNotifications
Restart ==
    LET loaded == LoadEvents(disk.doc) IN
    /\ disk.writing = <<>>
    /\ files.webhooks.writing = <<>>
    /\ files.notifications.writing = <<>>
    /\ events' = loaded.events
    /\ eventsByDate' = loaded.eventsByDate
    /\ writeTimer' = [handle |-> "none", armed |-> 0]
    /\ disk' = [disk EXCEPT !.failed = FALSE]
    /\ webhooks' = ParseHooks(files.webhooks.doc)
    /\ notifications' = files.notifications.doc
    /\ wsClients' = [c \in Clients |-> "ABSENT"]
    /\ apiKeys' = NoKeys
    /\ auth' = NoAuth
    /\ server' = Running
    /\ scans' = <<>>
    /\ isAlive' = [c \in Clients |-> TRUE]
    /\ pings' = {}
    /\ flushLog' = NoFlushes
    /\ UNCHANGED browser
    /\ lastOp' = [op |-> "load", id |-> Undefined, body |-> EmptyObject,
                  status |-> 0, ret |-> <<>>]
    /\ out' = NoOutput
    /\ UNCHANGED <<now, requests, files>>

\* request bodies of these runs: an event with every property, one without
\* a date, one that carries an id and neither title nor type
RestartBodies ==
    { Obj(Undefined, "Standup", "2024-01-21", Undefined, "meeting", <<CustomNotifications>>),
      Obj(Undefined, "Sync", Undefined, "14:00", "meeting", NoNotifications),
      Obj("1", Undefined, "2024-01-20", Undefined, Undefined, NoNotifications) }

NextRestart ==
    \/ NoScript /\ Plain /\ QueryBudget /\ \E eventData \in RestartBodies : AddEvent(eventData)
    \/ NoScript /\ Plain /\ QueryBudget /\ \E updates \in PersistUpdates :
           UpdateEvent(NowString(1), updates)
    \/ NoScript /\ Plain /\ QueryBudget /\ DeleteEvent(NowString(1))
    \/ NoScript /\ Plain /\ FlushFire
    \/ NoScript /\ Plain /\ \E i \in 1..MaxQueryRequests, ok \in BOOLEAN : WriteDone(i, ok)
    \/ NoScript /\ Plain /\ Tick
    \/ NoScript /\ Restart

SpecRestart == Init /\ [][NextRestart]_vars

\* an index holds each event of a store under its date, as often as the
\* store holds it, and holds nothing else
FiledByDate(index, store) ==
    /\ \A k \in IndexKeys : \A i \in 1..Len(index[k]) :
           /\ index[k][i]["date"] = k
           /\ CountEvent(store, index[k][i]) > 0
    /\ \A i \in 1..Len(store) :
           CountEvent(index[store[i]["date"]], store[i]) = CountEvent(store, store[i])

----------------------------------------------------------------------------
(* The reminder scanner tick by tick, with subscriptions to dispatch to     *)

MaxScans == 2  \* the scanner ticks at most this many times in a run

\* a tick of the scanner, and the note of what it reported
Scan ==
    /\ Len(scans) < MaxScans
    /\ ReminderCheck
    /\ scans' = Append(scans, [at |-> now, reported |-> EventsOf(lastOp'["ret"])])
    /\ auth' = NoAuth
    /\ UNCHANGED <<apiKeys, notifications, files, server, isAlive, pings, flushLog,
                   browser>>

\* request bodies of POST /api/webhooks in these runs
ScanHookBodies ==
    { Hook("http://a", Tags({"event.created"}), NoSecret),
      Hook("http://b", Tags({"*"}), StringSecret),
      Hook("http://d", NotAnArray, NoSecret) }

\* request bodies of POST /api/events in these runs: at 00:10, at 00:20 and
\* at 00:00:00.002 of today
ScanBodies ==
    { Obj(Undefined, "Sync", "2024-01-20", "00:10", "meeting", NoNotifications),
      Obj(Undefined, "Retro", "2024-01-20", "00:20", "meeting", NoNotifications),
      Obj(Undefined, "Standup", "2024-01-20", "00:00:00.002", "meeting", NoNotifications) }

NextScanner ==
    \/ NoScript /\ Plain /\ QueryBudget /\ \E eventData \in ScanBodies : AddEvent(eventData)
    \/ NoScript /\ HooksSettled /\ UNCHANGED requests /\ GenerateApiKey(NotifyKey)
    \/ NoScript /\ HooksSettled /\ QueryBudget /\ \E body \in ScanHookBodies :
           AddWebhook(NotifyKey, body)
    \/ NoScript /\ \E ok \in BOOLEAN : SaveDone("webhooks", 1, ok)
    \/ NoScript /\ Plain /\ Tick
    \/ NoScript /\ Scan

SpecScanner == Init /\ [][NextScanner]_vars

\* what C28 requires of one step
C28_ScanStep ==
    scans' # scans =>
        LET due == GetEventsNeedingReminders(ScannerLead) IN
        /\ lastOp'["op"] = "reminders"
        /\ lastOp'["ret"] = due
        /\ scans'[Len(scans')].reported = EventsOf(due)
        /\ IF due = <<>> THEN out' = NoOutput
           ELSE /\ Len(out'.broadcast) = 1
                /\ out'.broadcast[1].type = "reminders-due"
                /\ out'.broadcast[1].data = due
                /\ Len(out'.webhooks) = Len(due)
                /\ \A i \in 1..Len(due) :
                       /\ out'.webhooks[i].event = "event.reminder"
                       /\ out'.webhooks[i].data = due[i]

(* C28: every tick of the scanner hands all the events that                 *)
(* getEventsNeedingReminders(15) returns at that moment to the notifier     *)
(* (one reminders-due broadcast of the whole list and one event.reminder    *)
(* dispatch for each of them), whatever earlier ticks reported: an event    *)
(* that was reported and is still due is reported again.                    *)
C28_EveryTickReports == [][C28_ScanStep]_vars

\* two ticks at different times have reported the same event, and the
\* second one dispatched it to a subscription
C28_Witness ==
    /\ Len(scans) = 2
    /\ scans[1].at < scans[2].at
    /\ scans[1].reported # <<>>
    /\ scans[1].reported = scans[2].reported
    /\ lastOp["op"] = "reminders"
    /\ Len(out.webhooks) = 1
    /\ Len(out.webhooks[1].calls) = 1

----------------------------------------------------------------------------
(* POST /api/batch                                                          *)

MaxOps == 3  \* the batch requests of a run hold at most this many operations

\* op.url: absent, or the segments between the slashes of the string
NoUrl == [defined |-> FALSE, path |-> <<>>]
Url(path) == [defined |-> TRUE, path |-> path]

\* an element of req.body.operations; body is <<>> when op.body is absent,
\* days is 0 when op.params?.days is absent
Op(method, url, body, days) ==
    [method |-> method, url |-> url, body |-> body, days |-> days]

\* an element of results
Done(data) == [success |-> TRUE, data |-> data]
Thrown(message) == [success |-> FALSE, error |-> message]

\* result stays undefined when no branch of the switch assigns it
NoData == [undefined |-> TRUE]

\* what one triggerWebhooks / broadcast pair adds to what went before
Join(a, b) ==
    [broadcast |-> a.broadcast \o b.broadcast, webhooks |-> a.webhooks \o b.webhooks]

\* DataCache.getEventsInRange over the index as it is inside the batch
RECURSIVE RangeIn(_, _, _)
RangeIn(index, first, last) ==
    IF first > last THEN <<>>
    ELSE index[DateSeq[first]] \o RangeIn(index, first + 1, last)

\* cache.getUpcomingEvents(op.params?.days || 7) inside the batch
UpcomingIn(index, t, days) ==
    LET firstDay == ParseDate(DateSeq[1])
        lastDay == ParseDate(DateSeq[Len(DateSeq)])
        end == TodayNumber(t) + (IF days = 0 THEN 7 ELSE days)
        to == IF end > lastDay THEN lastDay ELSE end
    IN SortByDate(RangeIn(index, TodayNumber(t) - firstDay + 1, to - firstDay + 1))

\* op.url.startsWith('/api/events/')
StartsWithEvents(url) ==
    Len(url.path) >= 3 /\ url.path[1] = "api" /\ url.path[2] = "events"

\* op.url.split('/').pop()
LastSegment(url) == url.path[Len(url.path)]

\* the push of one result
Push(st, result) == [st EXCEPT !.results = Append(@, result)]

\* cache.addEvent(op.body) inside the batch; eventData.notifications throws
\* when op.body is undefined, before anything is stored
BatchAdd(st, op, t) ==
    IF op.body = <<>> THEN Push(st, Thrown("TypeError"))
    ELSE LET newEvent == NewEvent(op.body[1], t) IN
         [events |-> AddToStore(st.events, newEvent),
          index |-> AddToIndex(st.index, newEvent),
          timer |-> QueueWrite(st.timer),
          out |-> Join(st.out, Notify("event-added", "event.created", newEvent)),
          results |-> Append(st.results, Done([event |-> newEvent]))]

\* cache.deleteEvent(id) inside the batch; op.url.startsWith throws when
\* op.url is undefined
BatchDelete(st, op) ==
    IF ~op.url.defined THEN Push(st, Thrown("TypeError"))
    ELSE IF ~StartsWithEvents(op.url) THEN Push(st, Done(NoData))
    ELSE LET id == LastSegment(op.url)
             index == FindIndex(st.events, id) IN
         IF index = 0 THEN Push(st, Done([bool |-> FALSE]))
         ELSE [events |-> RemoveFromStore(st.events, index),
               index |-> RemoveFromIndex(st.index, st.events[index], id),
               timer |-> QueueWrite(st.timer),
               out |-> Join(st.out, Notify("event-deleted", "event.deleted",
                                           [EmptyObject EXCEPT !["id"] = id])),
               results |-> Append(st.results, Done([bool |-> TRUE]))]

TodayUrl == Url(<<"api", "events", "today">>)
UpcomingUrl == Url(<<"api", "events", "upcoming">>)
EventsUrl == Url(<<"api", "events">>)

\* one turn of the for loop: the switch inside its try / catch
RunOp(st, op, t) ==
    CASE op.method = "GET" /\ op.url = TodayUrl ->
             Push(st, Done([list |-> st.index[Today(t)]]))
      [] op.method = "GET" /\ op.url = UpcomingUrl ->
             Push(st, Done([list |-> UpcomingIn(st.index, t, op.days)]))
      [] op.method = "POST" /\ op.url = EventsUrl -> BatchAdd(st, op, t)
      [] op.method = "DELETE" -> BatchDelete(st, op)
      [] OTHER -> Push(st, Done(NoData))

\* a loop that ends at the first operation that fails
RECURSIVE RunBatchUntilFailure(_, _, _)
RunBatchUntilFailure(st, ops, t) ==
    IF ops = <<>> THEN st
    ELSE LET next == RunOp(st, Head(ops), t) IN
         IF next.results[Len(next.results)].success
         THEN RunBatchUntilFailure(next, Tail(ops), t)
         ELSE next

\* for (const op of operations) { ... }
RECURSIVE RunBatch(_, _, _)
RunBatch(st, ops, t) ==
    IF ops = <<>> THEN st
    ELSE RunBatch(RunOp(st, Head(ops), t), Tail(ops), t)

\* req.body.operations: an array of operations, or something else
Operations(ops) == [array |-> TRUE, ops |-> ops]
NotOperations == [array |-> FALSE, ops |-> <<>>]

\* POST /api/batch.  The awaits of the loop wait for promises that are
\* already settled, so no other handler runs between two operations.
Batch(key, operations) ==
    /\ OptionalApiKey(key)
    /\ IF ~operations.array
       THEN /\ lastOp' = [op |-> "batch", id |-> Undefined, body |-> <<>>,
                          status |-> 400, ret |-> <<>>]
            /\ out' = NoOutput
            /\ UNCHANGED <<events, eventsByDate, writeTimer>>
       ELSE LET st == RunBatch([events |-> events, index |-> eventsByDate,
                                timer |-> writeTimer, out |-> NoOutput,
                                results |-> <<>>],
                               operations.ops, now) IN
            /\ events' = st.events
            /\ eventsByDate' = st.index
            /\ writeTimer' = st.timer
            /\ out' = st.out
            /\ lastOp' = [op |-> "batch", id |-> Undefined, body |-> operations.ops,
                          status |-> 200, ret |-> st.results]
    /\ UNCHANGED <<now, disk, webhooks, wsClients, notifications, files, server, scans, isAlive, pings, flushLog,
                   browser>>

\* a batch request of n operations is handled (one that is no array counts
\* as one operation)
BatchBudget(n) == requests + n <= MaxOps /\ requests' = requests + n

\* the operations of the batch requests in these runs: the two reads, an
\* add, an add without body, a delete of the id an add of the first
\* millisecond gets, a delete without url, and a method the switch does
\* not know
BatchOps ==
    { Op("GET", TodayUrl, <<>>, 0),
      Op("GET", UpcomingUrl, <<>>, 1),
      Op("POST", EventsUrl,
         <<Obj(Undefined, "Sync", "2024-01-20", "00:10", "meeting", NoNotifications)>>, 0),
      Op("POST", EventsUrl, <<>>, 0),
      Op("DELETE", Url(<<"api", "events", NowString(1)>>), <<>>, 0),
      Op("DELETE", NoUrl, <<>>, 0),
      Op("PUT", Url(<<"api", "events", NowString(1)>>), <<>>, 0) }

\* the arrays of at most n operations
RECURSIVE OpSeqs(_)
OpSeqs(n) ==
    IF n = 0 THEN {<<>>}
    ELSE LET shorter == OpSeqs(n - 1) IN
         shorter \cup {Append(ops, op) : ops \in shorter, op \in BatchOps}

NextBatch ==
    \/ NoScript /\ \E ops \in OpSeqs(MaxOps - requests) :
           BatchBudget(Len(ops)) /\ Batch(Undefined, Operations(ops))
    \/ NoScript /\ BatchBudget(1) /\ Batch(Undefined, NotOperations)
    \/ NoScript /\ Plain /\ Tick

SpecBatch == Init /\ [][NextBatch]_vars

\* the operation throws: an add without body, a delete without url
Throws(op) ==
    \/ op.method = "POST" /\ op.url = EventsUrl /\ op.body = <<>>
    \/ op.method = "DELETE" /\ ~op.url.defined

IsAdd(op) == op.method = "POST" /\ op.url = EventsUrl /\ op.body # <<>>
IsDelete(op) == op.method = "DELETE" /\ op.url.defined /\ StartsWithEvents(op.url)
IsToday(op) == op.method = "GET" /\ op.url = TodayUrl

\* the operations before the i-th that added an event with this id, and
\* those that deleted one
AddsBefore(ops, res, i, id) ==
    {j \in 1..(i - 1) : IsAdd(ops[j]) /\ res[j].success /\ res[j].data.event["id"] = id}
DeletesBefore(ops, res, i, id) ==
    {j \in 1..(i - 1) : IsDelete(ops[j]) /\ LastSegment(ops[j].url) = id
                        /\ res[j].success /\ res[j].data.bool}

\* the events with this id in the store
Stored(store, id) == {k \in 1..Len(store) : store[k]["id"] = id}

\* the operations up to the i-th that changed the store
Changes(ops, res, i) ==
    {j \in 1..i : \/ IsAdd(ops[j]) /\ res[j].success
                  \/ IsDelete(ops[j]) /\ res[j].success /\ res[j].data.bool}

\* what C29 requires of one step
C29_BatchStep ==
    (lastOp'["op"] = "batch" /\ lastOp'["status"] = 200) =>
        LET ops == lastOp'["body"]
            res == lastOp'["ret"]
            n == Len(ops) IN
        /\ Len(res) = n
        /\ \A i \in 1..n :
               /\ res[i].success = ~Throws(ops[i])
               /\ IsAdd(ops[i]) =>
                      /\ res[i].data.event["title"] = ops[i].body[1]["title"]
                      /\ out'.broadcast[Cardinality(Changes(ops, res, i))].type = "event-added"
                      /\ out'.broadcast[Cardinality(Changes(ops, res, i))].data = res[i].data.event
               /\ IsDelete(ops[i]) =>
                      LET id == LastSegment(ops[i].url) IN
                      res[i].data.bool =
                          (Cardinality(Stored(events, id))
                             + Cardinality(AddsBefore(ops, res, i, id))
                             > Cardinality(DeletesBefore(ops, res, i, id)))
               /\ IsToday(ops[i]) =>
                      LET added == {j \in Changes(ops, res, i - 1) :
                                       /\ IsAdd(ops[j])
                                       /\ res[j].data.event["date"] = Today(now)}
                          deleted == {j \in Changes(ops, res, i - 1) : IsDelete(ops[j])}
                          most == Len(eventsByDate[Today(now)]) + Cardinality(added) IN
                      /\ Len(res[i].data.list) <= most
                      /\ deleted = {} => Len(res[i].data.list) = most
        /\ Len(out'.broadcast) = Cardinality(Changes(ops, res, n))
        /\ Len(events') = Len(events)
                            + Cardinality({j \in Changes(ops, res, n) : IsAdd(ops[j])})
                            - Cardinality({j \in Changes(ops, res, n) : IsDelete(ops[j])})

(* C29: POST /api/batch executes the operations in the order given and      *)
(* answers with one result per operation in that order; an operation that   *)
(* throws gets a failed result of its own and the operations after it are   *)
(* still executed, each on the store the operations before it left.         *)
C29_BatchInOrder == [][C29_BatchStep]_vars

\* a batch whose first operation failed, whose second added an event and
\* whose third deleted that event
C29_Witness ==
    /\ lastOp["op"] = "batch"
    /\ lastOp["status"] = 200
    /\ Len(lastOp["ret"]) = 3
    /\ ~lastOp["ret"][1].success
    /\ IsAdd(lastOp["body"][2]) /\ lastOp["ret"][2].success
    /\ IsDelete(lastOp["body"][3]) /\ lastOp["ret"][3].success
    /\ lastOp["ret"][3].data.bool
    /\ events = <<>>
    /\ Len(out.broadcast) = 2

----------------------------------------------------------------------------
(* Many requests within one hour                                            *)

MaxRateRequests == 101  \* the server gets at most this many requests in a run

\* the documented number of requests per hour without an API key
WithoutKeyLimit == 100

\* GET /api/events/today as one of many requests: the middleware in front
\* of the route is compression, cors, express.json and optionalApiKey, none
\* of which counts requests or ends one
TodayRequest(key) ==
    /\ requests < MaxRateRequests
    /\ requests' = requests + 1
    /\ OptionalApiKey(key)
    /\ lastOp' = [op |-> "today", id |-> Undefined, body |-> EmptyObject,
                  status |-> 200,
                  ret |-> <<[events |-> GetTodayEvents, date |-> Today(now)]>>]
    /\ out' = NoOutput
    /\ UNCHANGED <<events, eventsByDate, writeTimer, now, disk, webhooks, wsClients,
                   notifications, files, server, scans, isAlive, pings, flushLog,
                   browser>>

\* every clock value of the model lies in the first second of one day, so
\* all the requests of a run fall within one hour
NextRate ==
    \/ NoScript /\ TodayRequest(Undefined)
    \/ NoScript /\ Plain /\ Tick

SpecRate == Init /\ [][NextRate]_vars

\* what C30 requires of one step
C30_RateStep ==
    (requests' = requests + 1 /\ auth' = NoAuth /\ requests >= WithoutKeyLimit) =>
        lastOp'["status"] = 429

(* C30: within one hour at most 100 requests without an API key are        *)
(* served; a request beyond the limit is refused (429) instead of being     *)
(* handled by its route.                                                    *)
C30_RateLimited == [][C30_RateStep]_vars

----------------------------------------------------------------------------
(* The sockets of the event stream: two subscribers, mutations, the scanner  *)

MaxSocketRequests == 2  \* the server handles at most this many requests in the socket runs

SocketBudget == requests < MaxSocketRequests /\ requests' = requests + 1

\* request bodies and ids of the socket runs
SocketBodies == { Obj(Undefined, "Sync", "2024-01-20", "00:10", "meeting", NoNotifications) }
SocketIds == { NowString(1) }

NextSockets ==
    \/ NoScript /\ Plain /\ SocketBudget /\ \E eventData \in SocketBodies : AddEvent(eventData)
    \/ NoScript /\ Plain /\ SocketBudget /\ \E eventId \in SocketIds : UpdateEvent(eventId, TestUpdate)
    \/ NoScript /\ Plain /\ SocketBudget /\ \E eventId \in SocketIds : DeleteEvent(eventId)
    \/ NoScript /\ Plain /\ ReminderCheck
    \/ NoScript /\ Plain /\ \E c \in Clients : WsConnect(c)
    \/ NoScript /\ Plain /\ \E c \in Clients : WsBreak(c)
    \/ NoScript /\ Plain /\ \E c \in Clients : WsClosing(c)
    \/ NoScript /\ Plain /\ \E c \in Clients : WsClose(c)

SpecSockets == Init /\ [][NextSockets]_vars

\* the broadcasts of a step; the greeting of a new socket is sent to that
\* socket by the connection handler, not by broadcast
Broadcasts(o) == {k \in 1..Len(o.broadcast) : o.broadcast[k].type # "connected"}

\* what C31 requires of one step
C31_BroadcastStep ==
    \A k \in Broadcasts(out') :
        /\ \A c \in Clients :
               (c \in out'.broadcast[k].sends) <=> (wsClients[c] \in {"OPEN", "BROKEN"})
        /\ wsClients' = wsClients

(* C31: a broadcast sends the message to every socket of wsClients whose    *)
(* readyState is OPEN and to no other socket; a socket that is not OPEN     *)
(* (closing) is passed over, stays in wsClients, and does not keep the      *)
(* message from the sockets that are OPEN.                                  *)
C31_BroadcastToReady == [][C31_BroadcastStep]_vars

\* a mutation was broadcast while one socket was closing and the other open:
\* the open one was sent the message, the closing one is still in the set
C31_Witness ==
    /\ lastOp["op"] \in MutationOps
    /\ Len(out.broadcast) = 1
    /\ wsClients["c1"] = "CLOSING"
    /\ wsClients["c2"] = "OPEN"
    /\ out.broadcast[1].sends = {"c2"}

\* what C32 requires of one step
C32_ActiveSetStep ==
    /\ lastOp'["op"] = "ws-close" => wsClients'[lastOp'["id"]] = "ABSENT"
    /\ \A k \in Broadcasts(out') :
           \A c \in out'.broadcast[k].sends : wsClients[c] # "ABSENT"
    /\ \A c \in Clients :
           /\ (wsClients[c] = "ABSENT" /\ wsClients'[c] # "ABSENT") =>
                  (lastOp'["op"] = "ws-connect" /\ lastOp'["id"] = c)
           /\ (wsClients[c] # "ABSENT" /\ wsClients'[c] # "ABSENT") =>
                  ~(lastOp'["op"] = "ws-close" /\ lastOp'["id"] = c)

(* C32: the close or error event of a socket removes it from wsClients, and  *)
(* a socket that is not in wsClients is sent no broadcast; a socket enters   *)
(* wsClients only by connecting and is not in it after its close or error    *)
(* event.                                                                    *)
C32_ActiveSet == [][C32_ActiveSetStep]_vars

\* the connection of one socket was lost and its error event has removed it
\* while the other socket is still open, after a mutation
C32_Witness ==
    /\ lastOp["op"] = "ws-close"
    /\ lastOp["id"] = "c1"
    /\ wsClients["c1"] = "ABSENT"
    /\ wsClients["c2"] = "OPEN"
    /\ events # <<>>

\* the elements of an array
Range(arr) == {arr[i] : i \in 1..Len(arr)}

\* what C34 requires of one step
C34_ReflectedStep ==
    Mutated(lastOp') =>
        LET sent == out'.broadcast[1].data IN
        /\ out'.webhooks[1].data = sent
        /\ writeTimer'.handle = "pending"
        /\ lastOp'["op"] \in {"add", "update"} =>
               /\ sent \in Range(events')
               /\ sent \in Range(eventsByDate'[sent["date"]])
        /\ lastOp'["op"] = "delete" =>
               /\ Len(events') = Len(events) - 1
               /\ \A key \in IndexKeys :
                      \A e \in Range(eventsByDate'[key]) : e["id"] # sent["id"]

(* C34: when the broadcast of an add, update or delete is sent and its      *)
(* webhooks are dispatched, the store and the date index already hold the   *)
(* result of the mutation: the event that is broadcast is the one in the    *)
(* store and in the bucket of its date (after a delete, in neither), and    *)
(* the flush is scheduled by the same call.                                 *)
C34_StoreBeforeNotify == [][C34_ReflectedStep]_vars

(* C35: when the graceful shutdown has completed (the SIGTERM handler has   *)
(* reached process.exit), the events document on disk equals the events in  *)
(* memory: no mutation that was answered with success is missing from it,   *)
(* also not one accepted while the handler was waiting for its writes.      *)
C35_ShutdownDurable ==
    Did("process.exit") => disk.doc = Stringify(events)

----------------------------------------------------------------------------
(* Flushes that overlap, with the order in which their writes started        *)

\* a step that leaves everything outside the event store alone but may
\* start or settle a write of DATA_FILE
Logged ==
    /\ auth' = NoAuth
    /\ UNCHANGED <<apiKeys, notifications, files, server, scans, isAlive, pings,
                   browser>>

\* writeEvents has started one more write
LogFlush ==
    flushLog' = [started |-> flushLog.started + 1,
                 inflight |-> Append(flushLog.inflight, flushLog.started + 1),
                 stored |-> flushLog.stored]

\* the i-th write in progress has settled
LogWrite(i, ok) ==
    flushLog' = [started |-> flushLog.started,
                 inflight |-> RemoveAt(flushLog.inflight, i),
                 stored |-> IF ok THEN flushLog.inflight[i] ELSE flushLog.stored]

NextOverlap ==
    \/ NoScript /\ Plain /\ QueryBudget /\ \E eventData \in PersistBodies : AddEvent(eventData)
    \/ NoScript /\ Plain /\ QueryBudget /\ \E eventId \in RequestIds : DeleteEvent(eventId)
    \/ NoScript /\ Logged /\ FlushFire /\ LogFlush
    \/ NoScript /\ Logged /\ \E i \in 1..MaxQueryRequests, ok \in BOOLEAN :
           WriteDone(i, ok) /\ LogWrite(i, ok)
    \/ NoScript /\ Plain /\ Tick

SpecOverlap == Init /\ [][NextOverlap]_vars

(* C36: a write of DATA_FILE that completes never puts the snapshot of an   *)
(* earlier flush in the place of the snapshot of a later one, so that when  *)
(* flushes overlap the document ends up with the snapshot of the flush      *)
(* that started last.                                                       *)
C36_NewestSnapshotStays == [][flushLog'.stored >= flushLog.stored]_vars

----------------------------------------------------------------------------
(* The health check of the sockets: ping, pong, terminate                    *)

\* a step of the sockets that may change ws.isAlive and the pings
Socketed ==
    /\ auth' = NoAuth
    /\ UNCHANGED <<apiKeys, notifications, files, server, scans, flushLog, browser>>

\* the 'connection' handler whole: the greeting, and ws.isAlive = true
Connection(c) ==
    /\ WsConnect(c)
    /\ isAlive' = [isAlive EXCEPT ![c] = TRUE]
    /\ pings' = pings \ {c}

\* ws.on('pong'): the peer of a socket whose connection works answers the
\* ping it was sent
WsPong(c) ==
    /\ wsClients[c] = "OPEN"
    /\ c \in pings
    /\ isAlive' = [isAlive EXCEPT ![c] = TRUE]
    /\ pings' = pings \ {c}
    /\ lastOp' = [op |-> "ws-pong", id |-> c, body |-> EmptyObject,
                  status |-> 0, ret |-> <<>>]
    /\ out' = NoOutput
    /\ UNCHANGED <<events, eventsByDate, writeTimer, now, disk, requests, webhooks,
                   wsClients>>

\* a health check that terminates no socket
NoneToTerminate(clients, alive) == {}

\* the sockets of wss.clients for which ws.isAlive === false
ToTerminate(clients, alive) ==
    {c \in DOMAIN clients : clients[c] # "ABSENT" /\ ~alive[c]}

\* the wsHealthCheck interval callback: a socket whose flag is false is
\* deleted from wsClients and terminated, every other socket has its flag
\* set to false and is sent a ping
HealthCheck ==
    LET terminated == ToTerminate(wsClients, isAlive)
        pinged == {c \in Clients : wsClients[c] # "ABSENT"} \ terminated IN
    /\ wsClients' = [c \in Clients |-> IF c \in terminated THEN "ABSENT"
                                       ELSE wsClients[c]]
    /\ isAlive' = [c \in Clients |-> IF c \in pinged THEN FALSE ELSE isAlive[c]]
    /\ pings' = (pings \ terminated) \cup pinged
    /\ lastOp' = [op |-> "health", id |-> Undefined, body |-> EmptyObject,
                  status |-> 0, ret |-> <<[terminated |-> terminated]>>]
    /\ out' = NoOutput
    /\ UNCHANGED <<events, eventsByDate, writeTimer, now, disk, requests, webhooks>>

NextHealth ==
    \/ NoScript /\ Socketed /\ \E c \in Clients : Connection(c)
    \/ NoScript /\ Plain /\ \E c \in Clients : WsBreak(c)
    \/ NoScript /\ Plain /\ \E c \in Clients : WsClosing(c)
    \/ NoScript /\ Plain /\ \E c \in Clients : WsClose(c)
    \/ NoScript /\ Socketed /\ \E c \in Clients : WsPong(c)
    \/ NoScript /\ Socketed /\ HealthCheck

SpecHealth == Init /\ [][NextHealth]_vars

\* what C37 requires of one step
C37_HealthStep ==
    lastOp'["op"] = "health" =>
        \A c \in Clients :
            wsClients[c] # "ABSENT" =>
                /\ c \in pings => wsClients'[c] = "ABSENT"
                /\ c \notin pings => wsClients'[c] = wsClients[c]

(* C37: a socket that was sent a ping by a health check and has not         *)
(* answered it when the next health check runs is terminated and removed    *)
(* from wsClients by that check; a socket that has answered, or was not     *)
(* yet sent a ping, is left alone by the check.                             *)
C37_HealthCheck == [][C37_HealthStep]_vars

\* a health check has terminated the socket whose connection was lost and
\* has pinged again the socket that answered the ping before
C37_Witness ==
    /\ lastOp["op"] = "health"
    /\ lastOp["ret"][1].terminated = {"c1"}
    /\ wsClients = [c1 |-> "ABSENT", c2 |-> "OPEN"]
    /\ ~isAlive["c2"]
    /\ pings = {"c2"}

----------------------------------------------------------------------------
(* What the webhook endpoints answer, and the secrets                        *)

\* the subscription with its secret taken out
Redact(w) == [w EXCEPT !.secret = NoSecret]

\* what C38 requires of one step
C38_SecretStep ==
    /\ (lastOp'["op"] = "list-webhooks" /\ lastOp'["status"] = 200) =>
           /\ Len(lastOp'["ret"]) = Len(webhooks)
           /\ \A i \in 1..Len(webhooks) :
                  /\ lastOp'["ret"][i] = Shown(Redact(webhooks[i]))
                  /\ "secret" \notin DOMAIN lastOp'["ret"][i]
    /\ (lastOp'["op"] = "add-webhook" /\ lastOp'["status"] = 201) =>
           /\ DOMAIN lastOp'["ret"][1] = {"id", "url", "events"}
           /\ lastOp'["ret"][1].id = lastOp'["id"]
           /\ lastOp'["ret"][1].url = lastOp'["body"].url
           /\ lastOp'["ret"][1].events = lastOp'["body"].events
    /\ (lastOp'["op"] \in {"list-webhooks", "add-webhook", "remove-webhook"}
          /\ lastOp'["status"] \notin {200, 201}) => lastOp'["ret"] = <<>>
    /\ lastOp'["op"] = "remove-webhook" => lastOp'["ret"] = <<>>

(* C38: no answer of GET, POST or DELETE /api/webhooks carries the secret   *)
(* of a subscription: the listing is the same as the listing of the         *)
(* registry with every secret taken out, the answer to a registration       *)
(* holds the id, url and events only, and the other answers hold no         *)
(* subscription at all.                                                     *)
C38_NoSecretInResponses == [][C38_SecretStep]_vars

\* a subscription with a secret is registered and has just been listed
C38_Witness ==
    /\ lastOp["op"] = "list-webhooks"
    /\ lastOp["status"] = 200
    /\ Len(lastOp["ret"]) = 1
    /\ webhooks[1].secret = StringSecret
    /\ lastOp["ret"][1].url = "http://b"

----------------------------------------------------------------------------
(* The browser page: OptimizedCalendar of src/calendar.js                    *)

MaxClicks == 3  \* the user of the page clicks at most this many times

\* the months the page can show, in calendar order
MonthSeq == <<"2024-0", "2024-1">>

\* the place of a month key in MonthSeq
MonthIndex(key) == CHOOSE i \in 1..Len(MonthSeq) : MonthSeq[i] = key

\* the query of the fetch of loadEventsForMonth, in a browser whose local
\* time is UTC: the first and the last day of the month
MonthQuery(key) ==
    IF key = "2024-0"
    THEN [NoQuery EXCEPT !["start"] = "2024-01-01", !["end"] = "2024-01-31"]
    ELSE [NoQuery EXCEPT !["start"] = "2024-02-01", !["end"] = "2024-02-29"]

\* what this.events holds
Contents(b) ==
    IF b.events.alias = "none" THEN b.events.own ELSE b.eventCache[b.events.alias][1]

\* a change made in the array this.events names (push, assignment to an
\* element): when the array is the one eventCache holds, the cache entry
\* changes with it
InPlace(b, arr) ==
    IF b.events.alias = "none" THEN [b EXCEPT !.events = OwnArray(arr)]
    ELSE [b EXCEPT !.eventCache[b.events.alias] = <<arr>>]

\* this.eventCache.delete(key): this.events keeps the array it names
CacheDelete(b, key) ==
    [b EXCEPT !.eventCache[key] = <<>>,
              !.events = IF b.events.alias = key THEN OwnArray(Contents(b)) ELSE @]

\* a step of the page: nothing else of the new state changes
Paged ==
    /\ auth' = NoAuth
    /\ UNCHANGED <<apiKeys, notifications, files, server, scans, isAlive, pings,
                   flushLog>>

\* a step of the page in which the server handles no request
PageOnly(op, id) ==
    /\ lastOp' = [op |-> op, id |-> id, body |-> EmptyObject, status |-> 0, ret |-> <<>>]
    /\ out' = NoOutput
    /\ UNCHANGED <<events, eventsByDate, writeTimer, now, disk, requests, webhooks,
                   wsClients>>

\* the start of loadEventsForMonth for the month the page is on: the cached
\* array at once, or a fetch
StartLoad(b, by) ==
    IF b.eventCache[b.current] # <<>>
    THEN [b EXCEPT !.events = CachedArray(b.current)]
    ELSE [b EXCEPT !.loads = Append(@, [key |-> b.current, by |-> by])]

\* DOMContentLoaded: the constructor and init up to its await
OpenPage ==
    /\ ~browser.open
    /\ browser' = StartLoad([NoPage EXCEPT !.open = TRUE, !.current = MonthSeq[1]], "init")
    /\ PageOnly("page-open", Undefined)

\* the fetch of a loadEventsForMonth settles and the caller assigns
\* this.events: with the events of the answer, which are cached, or with an
\* empty array when the answer says no success or the fetch fails
LoadDone(i, outcome) ==
    /\ i \in 1..Len(browser.loads)
    /\ LET load == browser.loads[i]
           rest == [browser EXCEPT !.loads = RemoveAt(@, i),
                                   !.ready = @ \/ load.by = "init"] IN
       IF outcome = "ok"
       THEN /\ ListRoute(MonthQuery(load.key))
            /\ browser' = [rest EXCEPT
                   !.eventCache[load.key] = <<lastOp'["ret"][1].events>>,
                   !.events = CachedArray(load.key)]
       ELSE /\ PageOnly("page-load", load.key)
            /\ browser' = [rest EXCEPT !.events = OwnArray(<<>>)]

\* one more click
Click(b) == [b EXCEPT !.clicks = @ + 1]

\* changeMonth(direction) up to its await, and beyond when the month is
\* cached
ChangeMonth(direction) ==
    /\ browser.ready
    /\ browser.clicks < MaxClicks
    /\ MonthIndex(browser.current) + direction \in 1..Len(MonthSeq)
    /\ browser' = StartLoad([Click(browser) EXCEPT
                                !.current = MonthSeq[MonthIndex(browser.current) + direction]],
                            "changeMonth")
    /\ PageOnly("page-month", Undefined)

\* goToToday(): the month of today
GoToToday ==
    /\ browser.ready
    /\ browser.clicks < MaxClicks
    /\ browser' = StartLoad([Click(browser) EXCEPT !.current = MonthSeq[1]], "goToToday")
    /\ PageOnly("page-today", Undefined)

\* 'temp-' + Date.now()
TempId(t) == "temp-" \o NowString(t)

\* OptimizedCalendar.addEvent up to its await: the optimistic event is
\* pushed onto this.events and the POST is sent
PageAddEvent(eventData) ==
    /\ browser.ready
    /\ browser.clicks < MaxClicks
    /\ LET optimisticEvent == [Spread([EmptyObject EXCEPT !["id"] = TempId(now)], eventData)
                                  EXCEPT !["createdAt"] = ISOString(now)] IN
       browser' = [InPlace(Click(browser), Append(Contents(browser), optimisticEvent))
                      EXCEPT !.saves = Append(@, [id |-> TempId(now), data |-> eventData])]
    /\ PageOnly("page-add", TempId(now))

\* this.events.filter(e => e.id !== optimisticEvent.id)
Rollback(b, id) ==
    [b EXCEPT !.events = OwnArray(SelectSeq(Contents(b), LAMBDA e : e["id"] # id))]

\* the rest of OptimizedCalendar.addEvent: the server has stored the event
\* and the optimistic one is replaced, or the save failed (an answer without
\* success, or no answer) and the optimistic one is filtered out
PageAddEventDone(i, outcome) ==
    /\ i \in 1..Len(browser.saves)
    /\ LET save == browser.saves[i]
           rest == [browser EXCEPT !.saves = RemoveAt(@, i)] IN
       IF outcome = "ok"
       THEN /\ AddEvent(save.data)
            /\ LET index == FindIndex(Contents(rest), save.id)
                   replaced == IF index = 0 THEN rest
                               ELSE InPlace(rest, [Contents(rest) EXCEPT
                                                      ![index] = lastOp'["ret"][1]]) IN
               browser' = CacheDelete(replaced, replaced.current)
       ELSE /\ PageOnly("page-save", save.id)
            /\ lastOp'["status"] = 0
            /\ browser' = Rollback(rest, save.id)

\* what the user enters in the form
PageBodies == { Obj(Undefined, "Sync", "2024-01-20", "00:10", "meeting", NoNotifications) }

\* how a request of the page ends
Outcomes == {"ok", "refused", "error"}

NextPage ==
    \/ NoScript /\ Paged /\ OpenPage
    \/ NoScript /\ Paged /\ \E i \in 1..MaxClicks, outcome \in Outcomes :
           UNCHANGED requests /\ LoadDone(i, outcome)
    \/ NoScript /\ Paged /\ \E direction \in {-1, 1} : ChangeMonth(direction)
    \/ NoScript /\ Paged /\ GoToToday
    \/ NoScript /\ Paged /\ \E eventData \in PageBodies : PageAddEvent(eventData)
    \/ NoScript /\ Paged /\ \E i \in 1..MaxClicks, outcome \in Outcomes :
           UNCHANGED requests /\ PageAddEventDone(i, outcome)
    \/ NoScript /\ Plain /\ Tick

SpecPage == Init /\ [][NextPage]_vars

\* what C39 requires of one step
C39_RollbackStep ==
    lastOp'["op"] = "page-save" =>
        /\ FindIndex(Contents(browser'), lastOp'["id"]) = 0
        /\ \A k \in MonthKeys :
               browser'.eventCache[k] # <<>> =>
                   FindIndex(browser'.eventCache[k][1], lastOp'["id"]) = 0

(* C39: after an addEvent of the page whose save has failed, the            *)
(* optimistic event is neither in this.events nor in any array of           *)
(* eventCache.                                                              *)
C39_RollbackComplete == [][C39_RollbackStep]_vars

----------------------------------------------------------------------------
(* The page moving between months over a store that no longer changes       *)

MaxPosted == 2  \* events stored before the page is opened

\* the events stored before the page is opened
MonthBodies ==
    { Obj(Undefined, "Sync", "2024-01-20", "00:10", "meeting", NoNotifications),
      Obj(Undefined, "Retro", "2024-01-22", Undefined, Undefined, NoNotifications) }

\* one more event is stored
Posted == requests < MaxPosted /\ requests' = requests + 1

NextMonths ==
    \/ NoScript /\ Plain /\ Posted /\ ~browser.open
           /\ \E eventData \in MonthBodies : AddEvent(eventData)
    \/ NoScript /\ Paged /\ OpenPage
    \/ NoScript /\ Paged /\ \E i \in 1..MaxClicks :
           UNCHANGED requests /\ LoadDone(i, "ok")
    \/ NoScript /\ Paged /\ \E direction \in {-1, 1} : ChangeMonth(direction)
    \/ NoScript /\ Paged /\ GoToToday

SpecMonths == Init /\ [][NextMonths]_vars

\* the events the server answers for a month
MonthEvents(key) ==
    Paginate(ApplyFilters(MonthQuery(key)).result, 0, 100).events

(* C40: once every load the page has started has completed, this.events     *)
(* holds the events of the month the page is on, whatever the order in      *)
(* which the loads completed.                                               *)
C40_ShowsCurrentMonth ==
    (browser.ready /\ browser.loads = <<>>) =>
        Contents(browser) = MonthEvents(browser.current)

====
